---- MODULE Spec2Model ----
(***************************************************************************)
(* Agentarium API: the agent session store and hook-event interpreter      *)
(* (app/services/agent.py) together with the terrain layout engine         *)
(* (app/services/terrain.py) it consults, the broadcast channel            *)
(* (app/websocket.py) and the events endpoint (app/routers/events.py).     *)
(*                                                                         *)
(* Specifications                                                          *)
(*   Spec         the agent service handling hook events and layout loads  *)
(*   FnSpec       extract_file_path and generate_thought on one input      *)
(*   WsSpec       the connection manager and POST /api/events              *)
(*   TerrainSpec  scan_filesystem on one directory tree, repeated in the   *)
(*                same process or after a restart                          *)
(*   LayoutSpec   calculate_positions_for_layout on a hand-built layout    *)
(*                                                                         *)
(* Representation of Python values                                         *)
(*   None            [kind |-> "none"]                                     *)
(*   a str           [kind |-> "str", segs |-> the string split on "/"]    *)
(*                   so "" is <<"">>, "/a/f1" is <<"", "a", "f1">>          *)
(*   a number        [kind |-> "num", n |-> n]                             *)
(*   a dict          [kind |-> "map", m |-> a function on its keys]        *)
(*   formatted text  [kind |-> "text", t |-> a TLA+ string]                *)
(* Coordinates are fixed-point integers in thousandths of a unit.          *)
(***************************************************************************)
EXTENDS Integers, Sequences, FiniteSets, TLC

None == [kind |-> "none"]
Str(segs) == [kind |-> "str", segs |-> segs]
Num(n) == [kind |-> "num", n |-> n]
Map(m) == [kind |-> "map", m |-> m]
Text(t) == [kind |-> "text", t |-> t]

\* Python truthiness of a value (`if v:`).
Truthy(v) ==
    CASE v.kind = "none" -> FALSE
      [] v.kind = "str" -> v.segs # <<"">>
      [] v.kind = "num" -> v.n # 0
      [] v.kind = "map" -> DOMAIN v.m # {}
      [] OTHER -> TRUE

\* "/".join(segs): the text of a string.
RECURSIVE ToStr(_)
ToStr(segs) ==
    IF Len(segs) = 0 THEN ""
    ELSE IF Len(segs) = 1 THEN segs[1]
    ELSE segs[1] \o "/" \o ToStr(Tail(segs))

\* The segments of a string that pathlib keeps as parts (empty and "." dropped).
PathParts(segs) == SelectSeq(segs, LAMBDA s : s # "" /\ s # ".")

\* str(Path(s)): the normalised path text, as segments.
PathStr(segs) ==
    LET parts == PathParts(segs)
        absolute == Len(segs) > 1 /\ segs[1] = ""
    IN  IF absolute
        THEN (IF parts = <<>> THEN <<"", "">> ELSE <<"">> \o parts)
        ELSE (IF parts = <<>> THEN <<".">> ELSE parts)

\* Path(s).name: the final component of the normalised path ("" if none).
PathName(segs) ==
    LET parts == PathParts(segs)
    IN  IF parts = <<>> THEN "" ELSE parts[Len(parts)]

\* current_path / filename
PathJoin(dir, name) ==
    IF dir = <<"", "">> THEN <<"", name>>
    ELSE IF dir = <<".">> THEN <<name>>
    ELSE dir \o <<name>>

\* Path(dirpath) for a directory `rel` below `dir`.
RECURSIVE PathJoinAll(_, _)
PathJoinAll(dir, rel) ==
    IF rel = <<>> THEN dir ELSE PathJoinAll(PathJoin(dir, rel[1]), Tail(rel))

-----------------------------------------------------------------------------
(* Terrain layout engine: app/services/terrain.py *)

Position(x, y, z) == [x |-> x, y |-> y, z |-> z]
Origin == Position(0, 0, 0)

\* math.cos / math.sin of i * (2*pi / n), in thousandths, for n in 1..4.
CosTurn(i, n) ==
    CASE n = 1 -> 1000
      [] n = 2 -> <<1000, -1000>>[i + 1]
      [] n = 3 -> <<1000, -500, -500>>[i + 1]
      [] n = 4 -> <<1000, 0, -1000, 0>>[i + 1]
SinTurn(i, n) ==
    CASE n = 1 -> 0
      [] n = 2 -> <<0, 0>>[i + 1]
      [] n = 3 -> <<0, 866, -866>>[i + 1]
      [] n = 4 -> <<0, 1000, 0, -1000>>[i + 1]

\* math.log(n) in thousandths, for n in 1..8.
Ln(n) == <<0, 693, 1099, 1386, 1609, 1792, 1946, 2079>>[n]

\* Variant: elevation grows with depth and file count.
calculate_elevation_depth(depth, file_count) == depth * 3000 + 2 * Ln(file_count + 1)
calculate_elevation(depth, file_count) == 0

\* hash(file.path): a stand-in for the string hash, fixed within one process.
RECURSIVE PathHash(_)
PathHash(segs) ==
    IF Len(segs) = 0 THEN 0
    ELSE LET s == segs[Len(segs)]
             c == CASE s = "" -> 0
                    [] s = "a" -> 1
                    [] s = "b" -> 2
                    [] s = "src" -> 3
                    [] s = "f1" -> 4
                    [] s = "f2" -> 5
                    [] OTHER -> 6
         IN  (7 * PathHash(SubSeq(segs, 1, Len(segs) - 1)) + c) % 97

VARIABLES
    hash_salt,       \* the interpreter's string-hash salt, drawn when the process starts
    random_state,    \* the state of the process-global `random` generator
    raw_layout       \* the raw layout object handed to calculate_positions_for_layout

procvars == <<hash_salt, random_state, raw_layout>>

\* The salts a process may start with.
Salts == {0, 1}

\* The salt of the one process the service runs in: it never changes while
\* the service is up, and the service does not depend on which one it is.
ServiceSalt == CHOOSE salt \in Salts : \A other \in Salts : salt <= other

\* hash(file.path) in this process: str hashes are salted per process.
StrHash(segs) == (PathHash(segs) + 31 * hash_salt) % 97

\* The global generator as the interpreter leaves it at start-up (seeded from
\* the operating system), and after random.seed(seed) and `draws` draws.
FreshRandom == [seed |-> -1, draws |-> 0]
RandomState(seed, draws) == [seed |-> seed, draws |-> draws]

\* The three random.uniform draws after random.seed(seed): the angle jitter as
\* <<cos, sin>> of a value in [-0.3, 0.3], the radius 3.0 + [-1.0, 1.0] and the
\* height in [0.3, 0.7].
JitterOf(seed) ==
    [rot |-> <<(<<955, 296>>), (<<1000, 0>>), (<<955, -296>>)>>[(seed % 3) + 1],
     radius |-> <<2000, 3000, 4000>>[((seed \div 3) % 3) + 1],
     y |-> <<300, 500, 700>>[((seed \div 9) % 3) + 1]]

calculate_file_position(parent_position, file_index, total_files_in_folder, seed) ==
    LET n == IF total_files_in_folder > 1 THEN total_files_in_folder ELSE 1
        j == JitterOf(seed)
        \* cos and sin of (base angle + jitter), by the angle-sum identities
        c == (CosTurn(file_index, n) * j.rot[1] - SinTurn(file_index, n) * j.rot[2]) \div 1000
        s == (SinTurn(file_index, n) * j.rot[1] + CosTurn(file_index, n) * j.rot[2]) \div 1000
    IN  Position(parent_position.x + (c * j.radius) \div 1000,
                 j.y,
                 parent_position.z + (s * j.radius) \div 1000)

\* folder.path.rsplit("/", 1)[:-1] joined again; the root when that is empty.
ParentPath(path, root) ==
    LET front == SubSeq(path, 1, Len(path) - 1)
    IN  IF front = <<>> \/ front = <<"">> THEN root ELSE front

\* folder_children[parent]: the folders whose derived parent path is `parent`,
\* in input order.
FolderChildren(layout, parent) ==
    SelectSeq(layout.folders, LAMBDA f : ParentPath(f.path, layout.root) = parent)

\* files_by_folder[folder_path]
FilesByFolder(layout, folder_path) ==
    SelectSeq(layout.files, LAMBDA f : f.folder = folder_path)

RECURSIVE SumTotals(_, _, _)
RECURSIVE calculate_total_contents(_, _)
calculate_total_contents(layout, folder_path) ==
    LET children == FolderChildren(layout, folder_path)
    IN  Len(FilesByFolder(layout, folder_path)) + Len(children)
        + SumTotals(layout, children, 1)
SumTotals(layout, children, i) ==
    IF i > Len(children) THEN 0
    ELSE calculate_total_contents(layout, children[i].path)
         + SumTotals(layout, children, i + 1)

RECURSIVE SeqMax(_)
SeqMax(s) ==
    IF Len(s) = 1 THEN s[1]
    ELSE LET m == SeqMax(Tail(s)) IN IF s[1] > m THEN s[1] ELSE m

\* max(folder_total_contents.values()) if folder_total_contents else 1
MaxContents(layout) ==
    IF layout.folders = <<>> THEN 1
    ELSE SeqMax([i \in 1..Len(layout.folders) |->
                    calculate_total_contents(layout, layout.folders[i].path)])

\* Variant: one unit of height per item, not scaled to the largest folder.
calculate_folder_height_unscaled(total_contents, max_contents) ==
    IF max_contents <= 0 THEN 2000
    ELSE 2000 + 1000 * total_contents

calculate_folder_height(total_contents, max_contents) ==
    IF max_contents <= 0 THEN 2000
    ELSE 2000 + (8000 * Ln(total_contents + 1)) \div Ln(max_contents + 1)

\* Variant: top-level folders are clustered around the origin like nested ones.
FolderPosition_cluster(folder, parent_position, sibling_index, sibling_count) ==
    Position(parent_position.x + (CosTurn(sibling_index, sibling_count) * 5000) \div 1000,
             calculate_elevation(folder.depth, folder.file_count),
             parent_position.z + (SinTurn(sibling_index, sibling_count) * 5000) \div 1000)

\* Variant: nested folders are put on the ring of the top-level folders.
FolderPosition_ring(folder, parent_position, sibling_index, sibling_count) ==
    Position((CosTurn(sibling_index, sibling_count) * 20000) \div 1000,
             calculate_elevation(folder.depth, folder.file_count),
             (SinTurn(sibling_index, sibling_count) * 20000) \div 1000)

\* The position branch of position_folder_and_children.
FolderPosition(folder, parent_position, sibling_index, sibling_count) ==
    IF folder.depth = 1
    THEN Position((CosTurn(sibling_index, sibling_count) * 20000) \div 1000,
                  calculate_elevation(folder.depth, folder.file_count),
                  (SinTurn(sibling_index, sibling_count) * 20000) \div 1000)
    ELSE Position(parent_position.x + (CosTurn(sibling_index, sibling_count) * 5000) \div 1000,
                  calculate_elevation(folder.depth, folder.file_count),
                  parent_position.z + (SinTurn(sibling_index, sibling_count) * 5000) \div 1000)

\* position_folder_and_children: the positioned folder followed by its
\* positioned descendants, depth first.
RECURSIVE position_folder_and_children(_, _, _, _, _, _)
RECURSIVE PositionChildren(_, _, _, _, _)
position_folder_and_children(layout, max_contents, folder, parent_position, sibling_index, sibling_count) ==
    LET position == FolderPosition(folder, parent_position, sibling_index, sibling_count)
        height == calculate_folder_height(
                      calculate_total_contents(layout, folder.path), max_contents)
        positioned == [path |-> folder.path, name |-> folder.name,
                       depth |-> folder.depth, file_count |-> folder.file_count,
                       position |-> position, height |-> height]
    IN  <<positioned>>
        \o PositionChildren(layout, max_contents,
                            FolderChildren(layout, folder.path), position, 1)
PositionChildren(layout, max_contents, children, parent_position, i) ==
    IF i > Len(children) THEN <<>>
    ELSE position_folder_and_children(layout, max_contents, children[i],
                                      parent_position, i - 1, Len(children))
         \o PositionChildren(layout, max_contents, children, parent_position, i + 1)

PositionedFolders(layout) ==
    PositionChildren(layout, MaxContents(layout),
                     FolderChildren(layout, layout.root), Origin, 1)

\* folder_positions.get(folder_path): None when the folder was not positioned.
FolderPositionOf(layout, pf, folder_path) ==
    LET hits == SelectSeq(pf, LAMBDA f : f.path = folder_path)
    IN  IF hits # <<>> THEN hits[Len(hits)].position
        ELSE IF folder_path = layout.root THEN Origin
        ELSE None

\* The groups of files_by_folder in insertion order: the distinct owning
\* folders by first appearance.
RECURSIVE GroupOrder(_, _)
GroupOrder(files, seen) ==
    IF files = <<>> THEN <<>>
    ELSE IF files[1].folder \in seen THEN GroupOrder(Tail(files), seen)
    ELSE <<files[1].folder>> \o GroupOrder(Tail(files), seen \cup {files[1].folder})

RECURSIVE PositionedFiles(_, _, _)
PositionedFiles(layout, pf, groups) ==
    IF groups = <<>> THEN <<>>
    ELSE LET parent_position == FolderPositionOf(layout, pf, groups[1])
             files == FilesByFolder(layout, groups[1])
         IN  (IF parent_position = None THEN <<>>
              ELSE [i \in 1..Len(files) |->
                      [path |-> files[i].path, name |-> files[i].name,
                       folder |-> files[i].folder,
                       position |-> calculate_file_position(
                           parent_position, i - 1, Len(files),
                           StrHash(files[i].path))]])
             \o PositionedFiles(layout, pf, Tail(groups))

calculate_positions_for_layout(layout) ==
    [root |-> layout.root,
     folders |-> PositionedFolders(layout),
     files |-> PositionedFiles(layout, PositionedFolders(layout),
                               GroupOrder(layout.files, {}))]

\* The global generator after calculate_positions_for_layout returned
\* `positioned`: every calculate_file_position call seeds it and draws three
\* times, so it is where the last file positioned left it.
RandomAfterLayout(positioned, before) ==
    IF positioned.files = <<>> THEN before
    ELSE RandomState(StrHash(positioned.files[Len(positioned.files)].path), 3)

-----------------------------------------------------------------------------
(* Filesystem scan: app/services/agent.py, scan_filesystem *)

EXCLUDED_DIRS ==
    {"node_modules", ".pnpm", "bower_components", "vendor", "packages",
     ".git", ".svn", ".hg",
     "dist", "build", "out", "target", ".next", ".nuxt", ".output",
     ".cache", "__pycache__", ".pytest_cache", ".mypy_cache", ".tox",
     ".venv", "venv", "env", ".env",
     ".idea", ".vscode",
     "logs", "tmp", "temp", ".tmp",
     "coverage", ".nyc_output", "htmlcov"}

MAX_DEPTH == 5

\* What the directory at the scanned path is: absent (scan_filesystem raises
\* ValueError), or present with a listing of the directories below it: one
\* entry per directory on disk (its path relative to the root, as segments,
\* its file names, and the names among them whose stat() fails), top-down.
DirWalks ==
    { << [rel |-> <<>>, files |-> <<"f1">>, unreadable |-> {}] >>,
      << [rel |-> <<>>, files |-> <<"f1">>, unreadable |-> {}],
         [rel |-> <<"src">>, files |-> <<"f1", "f2">>, unreadable |-> {}] >> }
ScanOutcomes ==
    {[exists |-> FALSE, walk |-> <<>>]} \cup {[exists |-> TRUE, walk |-> w] : w \in DirWalks}

\* Whether os.walk reaches the directory at `rel`: the root always; another
\* directory when its parent is reached and left it in dirnames, that is when
\* its name is not excluded and the parent is above MAX_DEPTH.
\* Variant: the walk is cut one level below MAX_DEPTH.
RECURSIVE Reached_late(_)
Reached_late(rel) ==
    \/ rel = <<>>
    \/ /\ Reached_late(SubSeq(rel, 1, Len(rel) - 1))
       /\ rel[Len(rel)] \notin EXCLUDED_DIRS
       /\ ~(Len(rel) - 1 > MAX_DEPTH)

\* Variant: excluded names are dropped at the top level only.
RECURSIVE Reached_toplevel(_)
Reached_toplevel(rel) ==
    \/ rel = <<>>
    \/ /\ Reached_toplevel(SubSeq(rel, 1, Len(rel) - 1))
       /\ (Len(rel) = 1 => rel[Len(rel)] \notin EXCLUDED_DIRS)
       /\ ~(Len(rel) - 1 >= MAX_DEPTH)

RECURSIVE Reached(_)
Reached(rel) ==
    \/ rel = <<>>
    \/ /\ Reached(SubSeq(rel, 1, Len(rel) - 1))
       /\ rel[Len(rel)] \notin EXCLUDED_DIRS
       /\ ~(Len(rel) - 1 >= MAX_DEPTH)

\* The entries os.walk yields for a listing, with dirnames pruned in place.
OsWalk(listing) == SelectSeq(listing, LAMBDA e : Reached(e.rel))

RECURSIVE WalkFolders(_, _)
WalkFolders(root, walk) ==
    IF walk = <<>> THEN <<>>
    ELSE LET current_path == PathJoinAll(root, walk[1].rel)
         IN  (IF current_path # root
              THEN << [path |-> current_path,
                       name |-> walk[1].rel[Len(walk[1].rel)],
                       depth |-> Len(walk[1].rel),
                       file_count |-> Len(walk[1].files)] >>
              ELSE <<>>)
             \o WalkFolders(root, Tail(walk))

RECURSIVE WalkFiles(_, _)
WalkFiles(root, walk) ==
    IF walk = <<>> THEN <<>>
    ELSE LET current_path == PathJoinAll(root, walk[1].rel)
             readable == SelectSeq(walk[1].files,
                                   LAMBDA f : f \notin walk[1].unreadable)
         IN  [i \in 1..Len(readable) |->
                 [path |-> PathJoin(current_path, readable[i]),
                  name |-> readable[i],
                  folder |-> current_path]]
             \o WalkFiles(root, Tail(walk))

\* The raw layout scan_filesystem(path) builds for a directory with this listing.
ScannedLayout(path, listing) ==
    LET root_path == PathStr(path)
    IN  [root |-> root_path,
         folders |-> WalkFolders(root_path, OsWalk(listing)),
         files |-> WalkFiles(root_path, OsWalk(listing))]

\* scan_filesystem(path) for a directory with this listing.
scan_filesystem(path, listing) ==
    calculate_positions_for_layout(ScannedLayout(path, listing))

-----------------------------------------------------------------------------
(* Agent session store and event interpreter: app/services/agent.py *)

MaxEvents == 3

SessionIds == {"s1", "s2"}
CwdValues == {None, Str(<<"">>), Str(<<"", "a">>), Str(<<"", "b">>)}
PostToolNames == {None, Str(<<"Bash">>)}
\* The values a tool parameter takes: the path of a file a scan can produce,
\* one it cannot, and two numbers (one falsy).
ParamValues == {Str(<<"", "a", "f1">>), Str(<<"", "zz">>), Num(5), Num(0)}
\* The (tool_name, tool_input) pairs of PreToolUse events.
ToolCalls ==
    ({Str(<<"Read">>)} \X
        ({None, Map(<<>>)} \cup {Map("file_path" :> v) : v \in ParamValues}))
    \cup ({Str(<<"Grep">>)} \X
        {Map("path" :> Str(<<"", "a", "f1">>)), Map("path" :> Num(5)),
         Map("pattern" :> Str(<<"TODO">>))})
    \cup ({Str(<<"Bash">>)} \X
        {Map("command" :> Str(<<"ls">>)), Map("file_path" :> Str(<<"", "a", "f1">>))})
    \cup ({None} \X {Map("file_path" :> Str(<<"", "a", "f1">>))})
\* The directories GET /api/filesystem is asked to scan.
QueryPaths == {<<"", "a">>, <<"", "b">>}

\* HookEvent
HookEvent(session_id, hook_event_name, tool_name, tool_input, cwd) ==
    [session_id |-> session_id, hook_event_name |-> hook_event_name,
     tool_name |-> tool_name, tool_input |-> tool_input, cwd |-> cwd]

VARIABLES
    agents,          \* AgentService.agents: session id -> AgentState (a dict)
    terrain_layout,  \* AgentService.terrain_layout: None or a positioned layout
    current_cwd,     \* AgentService.current_cwd
    pc,              \* "idle", or "scan" inside _handle_session_start's scan
    ev,              \* the request being (pc = "scan") or last processed
    messages,        \* _handle_session_start's local list while it runs
    returned,        \* what process_hook_event returned (None until it returns)
    raised,          \* the exception the last call raised, "none" if it returned
    last_loaded,     \* history: cwd of the last event that returned a layout
    last_extracted,  \* history: per session, path extracted by its latest PreToolUse
    last_scan,       \* history: what the scan of the last request met, if it ran one
    steps,           \* requests handled so far
    history,         \* history: per session its latest lifecycle event and latest
                     \* move, and the cwds whose latest scan failed
    active_connections, \* ConnectionManager.active_connections (a list)
    conn_state,      \* per websocket: "new", "open", or how its disconnect ended
    bc,              \* per broadcast call: its position and locals
    response         \* the outcome of the last POST /api/events, None before

\* The agent service's variables and the connection manager's.
svcvars == <<agents, terrain_layout, current_cwd, pc, ev, messages, returned, raised,
             last_loaded, last_extracted, last_scan, steps, history>>
wsvars == <<active_connections, conn_state, bc, response>>
vars == <<svcvars, wsvars, procvars>>

\* AgentState.__init__
AgentState(agent_id) ==
    [agent_id |-> agent_id, position |-> Origin, current_action |-> None,
     target_path |-> None, thought |-> None]

\* tool_input.get(key, default)
DictGet(d, key, default) == IF key \in DOMAIN d.m THEN d.m[key] ELSE default

\* Variant: Bash inputs are read for a file_path as well.
extract_file_path_bash(tool_name, tool_input) ==
    IF ~Truthy(tool_input) THEN None
    ELSE IF tool_name \in {Str(<<"Read">>), Str(<<"Write">>), Str(<<"Edit">>),
                           Str(<<"Bash">>)}
         THEN DictGet(tool_input, "file_path", None)
    ELSE IF tool_name \in {Str(<<"Grep">>), Str(<<"Glob">>)}
         THEN DictGet(tool_input, "path", None)
    ELSE None

extract_file_path(tool_name, tool_input) ==
    IF ~Truthy(tool_input) THEN None
    ELSE IF tool_name \in {Str(<<"Read">>), Str(<<"Write">>), Str(<<"Edit">>)}
         THEN DictGet(tool_input, "file_path", None)
    ELSE IF tool_name \in {Str(<<"Grep">>), Str(<<"Glob">>)}
         THEN DictGet(tool_input, "path", None)
    ELSE None

\* An exception propagating out of a call.
Raise(exc) == [kind |-> "raise", exc |-> exc]
IsRaise(r) == "kind" \in DOMAIN r /\ r.kind = "raise"

\* f"{v}" of a str or a number.
Format(v) == IF v.kind = "str" THEN ToStr(v.segs) ELSE ToString(v.n)

\* f"{prefix}{Path(file_path).name}": pathlib accepts only str.
NameThought(prefix, file_path) ==
    IF file_path.kind = "str" THEN Text(prefix \o PathName(file_path.segs))
    ELSE Raise("TypeError")

generate_thought(tool_name, tool_input) ==
    LET fallback == Text("Using " \o Format(tool_name))
        file_path == DictGet(tool_input, "file_path", Str(<<"">>))
        command == DictGet(tool_input, "command", Str(<<"">>))
        pattern == DictGet(tool_input, "pattern", Str(<<"">>))
    IN  IF ~Truthy(tool_input) THEN fallback
        ELSE CASE tool_name = Str(<<"Read">>) /\ Truthy(file_path) ->
                      NameThought("Reading ", file_path)
               [] tool_name = Str(<<"Write">>) /\ Truthy(file_path) ->
                      NameThought("Writing ", file_path)
               [] tool_name = Str(<<"Edit">>) /\ Truthy(file_path) ->
                      NameThought("Editing ", file_path)
               [] tool_name = Str(<<"Bash">>) /\ Truthy(command) ->
                      Text("Running: " \o Format(command))
               [] tool_name = Str(<<"Grep">>) /\ Truthy(pattern) ->
                      Text("Searching for: " \o Format(pattern))
               [] tool_name = Str(<<"Glob">>) /\ Truthy(pattern) ->
                      Text("Finding: " \o Format(pattern))
               [] OTHER -> fallback

\* AgentService.get_file_position
get_file_position(layout, file_path) ==
    IF layout = None THEN None
    ELSE LET hits == SelectSeq(layout.files, LAMBDA f : Str(f.path) = file_path)
         IN  IF hits # <<>> THEN hits[1].position ELSE None

\* Variant: creating an agent resets the entries of the other sessions.
get_or_create_agent_reset(store, session_id) ==
    IF session_id \in DOMAIN store THEN store
    ELSE [s \in DOMAIN store |-> AgentState(s)] @@ (session_id :> AgentState(session_id))

\* AgentService.get_or_create_agent: the store afterwards.
get_or_create_agent(store, session_id) ==
    IF session_id \in DOMAIN store THEN store
    ELSE store @@ (session_id :> AgentState(session_id))

\* Variant: the whole store is cleared.
remove_agent_all(store, session_id) == <<>>

\* Variant: the entry is kept.
remove_agent_keep(store, session_id) == store

\* AgentService.remove_agent: the store afterwards.
remove_agent(store, session_id) ==
    [s \in (DOMAIN store) \ {session_id} |-> store[s]]

\* An outbound notification: the (message_type, message_data) tuple.
Notification(type, data) == [type |-> type, data |-> data]

\* pydantic's validation of an Optional[str] field: None or a str, nothing else.
ValidOptionalStr(v) == v.kind \in {"none", "str", "text"}

\* The file_path local of _handle_pre_tool_use.
ExtractedPath(event) ==
    IF Truthy(event.tool_input)
    THEN extract_file_path(
             IF Truthy(event.tool_name) THEN event.tool_name ELSE Str(<<"">>),
             event.tool_input)
    ELSE None

\* _handle_pre_tool_use: the store afterwards and the tuple returned, or the
\* exception raised. A Position object is always truthy, None never is.
handle_pre_tool_use(store, layout, event) ==
    LET sid == event.session_id
        store1 == get_or_create_agent(store, sid)
        file_path == ExtractedPath(event)
        target_position == IF Truthy(file_path)
                           THEN get_file_position(layout, file_path)
                           ELSE None
        thought == IF Truthy(event.tool_name) /\ Truthy(event.tool_input)
                   THEN generate_thought(event.tool_name, event.tool_input)
                   ELSE None
        event_type == IF target_position # None THEN "move" ELSE "think"
        store2 == [store1 EXCEPT ![sid] =
                      [@ EXCEPT !.position = IF target_position # None
                                             THEN target_position ELSE @,
                                !.current_action = Str(<<event_type>>),
                                !.target_path = file_path,
                                !.thought = thought]]
    IN  IF IsRaise(thought)
        THEN [agents |-> store1, result |-> thought]
        ELSE IF ~ValidOptionalStr(file_path)
        THEN [agents |-> store2, result |-> Raise("ValidationError")]
        ELSE [agents |-> store2,
              result |-> Notification("agent_event",
                  [agent_id |-> sid, event_type |-> event_type,
                   target_path |-> file_path, target_position |-> target_position,
                   thought |-> thought, tool_name |-> event.tool_name])]

\* Variant: an unknown session is answered like a fresh agent.
handle_post_tool_use_fresh(store, event) ==
    LET agent == get_or_create_agent(store, event.session_id)[event.session_id]
    IN  IF ~ValidOptionalStr(agent.target_path)
        THEN Raise("ValidationError")
        ELSE Notification("agent_event",
                 [agent_id |-> event.session_id, event_type |-> "idle",
                  target_path |-> agent.target_path, target_position |-> None,
                  thought |-> None, tool_name |-> event.tool_name])

\* _handle_post_tool_use: the tuple returned ((None, None) as None), or the
\* exception raised.
handle_post_tool_use(store, event) ==
    IF event.session_id \notin DOMAIN store THEN None
    ELSE LET agent == store[event.session_id]
         IN  IF ~ValidOptionalStr(agent.target_path)
             THEN Raise("ValidationError")
             ELSE Notification("agent_event",
                      [agent_id |-> event.session_id, event_type |-> "idle",
                       target_path |-> agent.target_path, target_position |-> None,
                       thought |-> None, tool_name |-> event.tool_name])

\* _handle_session_end: the tuple returned.
handle_session_end(event) ==
    Notification("agent_despawn", [agent_id |-> event.session_id])

\* process_hook_event's `[result] if result[0] else []`
ResultList(result) == IF result = None THEN <<>> ELSE <<result>>

\* Variant: the terrain is loaded whenever a cwd is supplied.
LoadNeeded_always(event, cwd_now) == Truthy(event.cwd)

\* The condition of _handle_session_start's terrain branch.
LoadNeeded(event, cwd_now) == Truthy(event.cwd) /\ event.cwd # cwd_now

TerrainLoadingMsg(event) ==
    Notification("terrain_loading",
        [session_id |-> event.session_id, cwd |-> event.cwd])

\* Variant: terrain_complete is appended before the layout.
TerrainLoadedMsgs_swapped(event, layout) ==
    << Notification("terrain_complete",
           [session_id |-> event.session_id,
            folder_count |-> Len(layout.folders),
            file_count |-> Len(layout.files)]),
       Notification("filesystem", layout) >>

\* The messages appended after a successful scan.
TerrainLoadedMsgs(event, layout) ==
    << Notification("filesystem", layout),
       Notification("terrain_complete",
           [session_id |-> event.session_id,
            folder_count |-> Len(layout.folders),
            file_count |-> Len(layout.files)]) >>

\* Variant: every agent of the store is put at the origin.
SpawnStore_everyone(store, session_id) ==
    [s \in DOMAIN get_or_create_agent(store, session_id) |->
        [get_or_create_agent(store, session_id)[s] EXCEPT !.position = Origin]]

\* Variant: an existing agent keeps its position.
SpawnStore_keep(store, session_id) == get_or_create_agent(store, session_id)

\* The tail of _handle_session_start: the agent is got or created and put at
\* the origin; the store afterwards.
SpawnStore(store, session_id) ==
    [get_or_create_agent(store, session_id) EXCEPT ![session_id].position = Origin]

AgentSpawnMsg(store, session_id) ==
    Notification("agent_spawn",
        [agent_id |-> session_id, position |-> store[session_id].position])

\* History: the cwd of the latest event that returned a "filesystem" notification.
LoadedBy(event, msgs, before) ==
    IF \E i \in 1..Len(msgs) : msgs[i].type = "filesystem" THEN event.cwd ELSE before

Events ==
    {HookEvent(s, "SessionStart", None, None, c) : s \in SessionIds, c \in CwdValues}
    \cup {HookEvent(s, "PreToolUse", tc[1], tc[2], None) :
             s \in SessionIds, tc \in ToolCalls}
    \cup {HookEvent(s, "PostToolUse", t, None, None) :
             s \in SessionIds, t \in PostToolNames}
    \cup {HookEvent(s, n, None, None, None) :
             s \in SessionIds, n \in {"SessionEnd", "Stop", "Notification"}}

NoEvent == HookEvent("", "", None, None, None)

\* History kept beside the service. `life` is the name of the session's most
\* recent event among SessionStart, PreToolUse, SessionEnd and Stop ("" if
\* none); `move` the target_position of the latest "move" agent_event emitted
\* for the session since its last SessionStart or since its AgentState was
\* created (None if none); `failed` the cwds whose scan by a SessionStart
\* failed with no SessionStart for that cwd completed since.
NoHistory ==
    [life |-> [s \in SessionIds |-> ""],
     move |-> [s \in SessionIds |-> None],
     failed |-> {}]
HistoryStart(h, event, scan_failed) ==
    [life |-> [h.life EXCEPT ![event.session_id] = "SessionStart"],
     move |-> [h.move EXCEPT ![event.session_id] = None],
     failed |-> IF scan_failed THEN h.failed \cup {event.cwd}
                ELSE h.failed \ {event.cwd}]
HistoryEnd(h, event) ==
    [h EXCEPT !.life[event.session_id] = event.hook_event_name,
              !.move[event.session_id] = None]
HistoryPre(h, store, event, result) ==
    LET since == IF event.session_id \in DOMAIN store
                 THEN h.move[event.session_id] ELSE None
    IN  [h EXCEPT !.life[event.session_id] = "PreToolUse",
                  !.move[event.session_id] =
                      IF ~IsRaise(result) /\ result.data.event_type = "move"
                      THEN result.data.target_position ELSE since]
NoScan == [ran |-> FALSE, exists |-> FALSE, walk |-> <<>>]
Scanned(outcome) == [ran |-> TRUE, exists |-> outcome.exists, walk |-> outcome.walk]

\* The websockets that may connect, and the calls of broadcast that may run.
Listeners == {"w1", "w2", "w3"}
Tasks == {"b1", "b2"}

\* A broadcast call that has not started: `i` is the list iterator's index,
\* `disconnected` the local list; `start`, `log` and `stable` are history (the
\* list when the call started, each send with its outcome, and whether no other
\* operation has changed the list since), and so are `throughout` (the
\* listeners in the list ever since the call started), `received` (those of
\* them a send of this call succeeded for) and `repeated` (those a second send
\* succeeded for).
IdleBroadcast ==
    [pc |-> "idle", i |-> 0, disconnected |-> <<>>,
     start |-> <<>>, log |-> <<>>, stable |-> TRUE,
     throughout |-> {}, received |-> {}, repeated |-> {}]

\* ConnectionManager.__init__, and no request made yet.
WsInit ==
    /\ active_connections = <<>>
    /\ conn_state = [w \in Listeners |-> "new"]
    /\ bc = [t \in Tasks |-> IdleBroadcast]
    /\ response = None

Init ==
    /\ agents = <<>>
    /\ terrain_layout = None
    /\ current_cwd = None
    /\ pc = "idle"
    /\ ev = NoEvent
    /\ messages = <<>>
    /\ returned = <<>>
    /\ raised = "none"
    /\ last_loaded = None
    /\ last_extracted = [s \in SessionIds |-> None]
    /\ last_scan = NoScan
    /\ steps = 0
    /\ history = NoHistory
    /\ WsInit
    /\ hash_salt = ServiceSalt
    /\ random_state = FreshRandom
    /\ raw_layout = None

\* process_hook_event is entered: no call is in progress (the function is
\* synchronous) and the run is within its bound.
Accepts(event) == pc = "idle" /\ steps < MaxEvents

\* A call of process_hook_event that runs to its return (or raise) in one step.
Complete(event, store, msgs, exc) ==
    /\ ev' = event
    /\ agents' = store
    /\ returned' = msgs
    /\ raised' = exc
    /\ pc' = "idle"
    /\ messages' = <<>>
    /\ last_scan' = NoScan
    /\ steps' = steps + 1
    /\ UNCHANGED <<wsvars, procvars>>

\* SessionStart whose terrain branch is taken: terrain_loading is appended to
\* the local list and scan_filesystem is entered.
SessionStartBegin(event) ==
    /\ Accepts(event)
    /\ event.hook_event_name = "SessionStart"
    /\ LoadNeeded(event, current_cwd)
    /\ ev' = event
    /\ pc' = "scan"
    /\ messages' = <<TerrainLoadingMsg(event)>>
    /\ returned' = None
    /\ raised' = "none"
    /\ last_scan' = NoScan
    /\ steps' = steps + 1
    /\ UNCHANGED <<agents, terrain_layout, current_cwd, last_loaded, last_extracted,
                   history>>
    /\ UNCHANGED <<wsvars, procvars>>

\* Variant: a failed scan drops the stored layout.
LayoutAfterScan_drop(event, outcome, layout_before) ==
    IF outcome.exists THEN scan_filesystem(event.cwd.segs, outcome.walk)
    ELSE None

\* The try/except around the scan: the layout and the cwd the service holds
\* afterwards, and the messages appended.
LayoutAfterScan(event, outcome, layout_before) ==
    IF outcome.exists THEN scan_filesystem(event.cwd.segs, outcome.walk)
    ELSE layout_before
\* Variant: the cwd is not recorded after a scan.
CwdAfterScan_keep(event, outcome, cwd_before) == cwd_before

\* Variant: the cwd is recorded whether or not the scan succeeded.
CwdAfterScan_always(event, outcome, cwd_before) == event.cwd

CwdAfterScan(event, outcome, cwd_before) ==
    IF outcome.exists THEN event.cwd ELSE cwd_before
MsgsAfterScan(event, outcome) ==
    IF outcome.exists
    THEN TerrainLoadedMsgs(event, scan_filesystem(event.cwd.segs, outcome.walk))
    ELSE <<>>

\* scan_filesystem returns or raises, and _handle_session_start runs to its end.
SessionStartScanned(outcome) ==
    /\ pc = "scan"
    /\ LET store == SpawnStore(agents, ev.session_id)
           msgs == messages \o MsgsAfterScan(ev, outcome)
                   \o <<AgentSpawnMsg(store, ev.session_id)>>
       IN  /\ terrain_layout' = LayoutAfterScan(ev, outcome, terrain_layout)
           /\ current_cwd' = CwdAfterScan(ev, outcome, current_cwd)
           /\ agents' = store
           /\ returned' = msgs
           /\ last_loaded' = LoadedBy(ev, msgs, last_loaded)
    /\ pc' = "idle"
    /\ messages' = <<>>
    /\ last_scan' = Scanned(outcome)
    /\ history' = HistoryStart(history, ev, ~outcome.exists)
    /\ random_state' = IF outcome.exists
                       THEN RandomAfterLayout(
                                scan_filesystem(ev.cwd.segs, outcome.walk), random_state)
                       ELSE random_state
    /\ UNCHANGED <<ev, raised, last_extracted, steps>>
    /\ UNCHANGED <<wsvars, hash_salt, raw_layout>>

\* SessionStart whose terrain branch is skipped.
SessionStartNoLoad(event) ==
    /\ Accepts(event)
    /\ event.hook_event_name = "SessionStart"
    /\ ~LoadNeeded(event, current_cwd)
    /\ LET store == SpawnStore(agents, event.session_id)
           msgs == <<AgentSpawnMsg(store, event.session_id)>>
       IN  /\ Complete(event, store, msgs, "none")
           /\ last_loaded' = LoadedBy(event, msgs, last_loaded)
    /\ history' = HistoryStart(history, event, FALSE)
    /\ UNCHANGED <<terrain_layout, current_cwd, last_extracted>>

SessionEnd(event) ==
    /\ Accepts(event)
    /\ event.hook_event_name \in {"SessionEnd", "Stop"}
    /\ Complete(event, remove_agent(agents, event.session_id),
                ResultList(handle_session_end(event)), "none")
    /\ last_extracted' = [last_extracted EXCEPT ![event.session_id] = None]
    /\ history' = HistoryEnd(history, event)
    /\ UNCHANGED <<terrain_layout, current_cwd, last_loaded>>

PreToolUse(event) ==
    /\ Accepts(event)
    /\ event.hook_event_name = "PreToolUse"
    /\ LET r == handle_pre_tool_use(agents, terrain_layout, event)
       IN  IF IsRaise(r.result)
           THEN Complete(event, r.agents, <<>>, r.result.exc)
           ELSE Complete(event, r.agents, ResultList(r.result), "none")
    /\ last_extracted' = [last_extracted EXCEPT ![event.session_id] = ExtractedPath(event)]
    /\ history' = HistoryPre(history, agents, event,
                             handle_pre_tool_use(agents, terrain_layout, event).result)
    /\ UNCHANGED <<terrain_layout, current_cwd, last_loaded>>

\* Variant: the agent is marked idle when the tool completes.
PostToolUse_idle(event) ==
    /\ Accepts(event)
    /\ event.hook_event_name = "PostToolUse"
    /\ LET r == handle_post_tool_use(agents, event)
           store == IF event.session_id \in DOMAIN agents
                    THEN [agents EXCEPT ![event.session_id].current_action = Str(<<"idle">>)]
                    ELSE agents
       IN  IF IsRaise(r)
           THEN Complete(event, store, <<>>, r.exc)
           ELSE Complete(event, store, ResultList(r), "none")
    /\ UNCHANGED <<terrain_layout, current_cwd, last_loaded, last_extracted, history>>

PostToolUse(event) ==
    /\ Accepts(event)
    /\ event.hook_event_name = "PostToolUse"
    /\ LET r == handle_post_tool_use(agents, event)
       IN  IF IsRaise(r)
           THEN Complete(event, agents, <<>>, r.exc)
           ELSE Complete(event, agents, ResultList(r), "none")
    /\ UNCHANGED <<terrain_layout, current_cwd, last_loaded, last_extracted, history>>

\* Variant: an unrecognised event still creates the session's agent.
IgnoredEvent_creates(event) ==
    /\ Accepts(event)
    /\ event.hook_event_name \notin
           {"SessionStart", "SessionEnd", "Stop", "PreToolUse", "PostToolUse"}
    /\ Complete(event, get_or_create_agent(agents, event.session_id), <<>>, "none")
    /\ UNCHANGED <<terrain_layout, current_cwd, last_loaded, last_extracted, history>>

\* process_hook_event's else branch: the event is ignored.
IgnoredEvent(event) ==
    /\ Accepts(event)
    /\ event.hook_event_name \notin
           {"SessionStart", "SessionEnd", "Stop", "PreToolUse", "PostToolUse"}
    /\ Complete(event, agents, <<>>, "none")
    /\ UNCHANGED <<terrain_layout, current_cwd, last_loaded, last_extracted, history>>

\* GET /api/filesystem?path=...: a missing path is answered 404 and leaves
\* the service alone; otherwise the scanned layout is handed to
\* set_terrain_layout, which stores the layout and nothing else.
GetFilesystem(path, outcome) ==
    /\ pc = "idle"
    /\ steps < MaxEvents
    /\ ev' = HookEvent("", "GET /api/filesystem", None, None, Str(path))
    /\ terrain_layout' = IF outcome.exists THEN scan_filesystem(path, outcome.walk)
                         ELSE terrain_layout
    /\ raised' = IF outcome.exists THEN "none" ELSE "HTTPException"
    /\ returned' = <<>>
    /\ last_scan' = Scanned(outcome)
    /\ steps' = steps + 1
    /\ random_state' = IF outcome.exists
                       THEN RandomAfterLayout(scan_filesystem(path, outcome.walk),
                                              random_state)
                       ELSE random_state
    /\ UNCHANGED <<agents, current_cwd, pc, messages, last_loaded, last_extracted, history>>
    /\ UNCHANGED <<wsvars, hash_salt, raw_layout>>

Next ==
    \/ \E event \in Events : SessionStartBegin(event)
    \/ \E outcome \in ScanOutcomes : SessionStartScanned(outcome)
    \/ \E event \in Events : SessionStartNoLoad(event)
    \/ \E event \in Events : SessionEnd(event)
    \/ \E event \in Events : PreToolUse(event)
    \/ \E event \in Events : PostToolUse(event)
    \/ \E event \in Events : IgnoredEvent(event)
    \/ \E path \in QueryPaths, outcome \in ScanOutcomes : GetFilesystem(path, outcome)

Spec == Init /\ [][Next]_vars

-----------------------------------------------------------------------------
(* Properties *)

\* The message types of a returned list, in order.
Types(msgs) == [i \in 1..Len(msgs) |-> msgs[i].type]

\* This step is the entry of a new call of process_hook_event with a hook event.
NewCall == steps' = steps + 1 /\ ev' \in Events

\* This step is the return of the SessionStart call that was scanning.
ScanReturns == pc = "scan" /\ pc' = "idle"

\* The last call was for a hook event of this name and has returned or raised.
Handled(names) == pc = "idle" /\ ev \in Events /\ ev.hook_event_name \in names

\* C1: a SessionStart whose cwd is supplied (a non-empty string: the code
\* treats "" like an absent cwd and never scans it) and differs from current_cwd enters
\* the scan with terrain_loading first in its list; when the scan succeeds the
\* call returns exactly [terrain_loading, filesystem, terrain_complete,
\* agent_spawn], the stored layout is the scanned layout and current_cwd is the
\* event's cwd.
C1_FreshCwdLoadsTerrain ==
    [][ /\ (NewCall /\ ev'.hook_event_name = "SessionStart"
              /\ Truthy(ev'.cwd) /\ ev'.cwd # current_cwd)
           => (pc' = "scan" /\ Types(messages') = <<"terrain_loading">>)
        /\ (ScanReturns /\ last_scan'.exists)
           => /\ raised' = "none"
              /\ Types(returned') = <<"terrain_loading", "filesystem",
                                      "terrain_complete", "agent_spawn">>
              /\ returned'[2].data = scan_filesystem(ev.cwd.segs, last_scan'.walk)
              /\ terrain_layout' = scan_filesystem(ev.cwd.segs, last_scan'.walk)
              /\ current_cwd' = ev.cwd ]_vars

\* C1 witness: a SessionStart for a directory with a subfolder has returned its
\* four notifications and the layout of that directory is stored.
C1_Witness ==
    /\ Handled({"SessionStart"})
    /\ last_scan.ran /\ last_scan.exists
    /\ Len(returned) = 4
    /\ terrain_layout # None
    /\ Len(terrain_layout.folders) = 1
    /\ current_cwd = ev.cwd

\* C2: once a SessionStart has loaded the terrain of cwd c (it returned a
\* filesystem notification) and no later event has loaded another directory,
\* a SessionStart with cwd c, for any session, returns exactly [agent_spawn]
\* and leaves the stored layout and current_cwd unchanged.
C2_SameCwdNoReload ==
    [][ (NewCall /\ ev'.hook_event_name = "SessionStart"
            /\ last_loaded # None /\ ev'.cwd = last_loaded)
        => /\ pc' = "idle"
           /\ raised' = "none"
           /\ Types(returned') = <<"agent_spawn">>
           /\ terrain_layout' = terrain_layout
           /\ current_cwd' = current_cwd ]_vars

\* C2 witness: the second session starts in the directory the first loaded.
C2_Witness ==
    /\ Handled({"SessionStart"})
    /\ ev.session_id = "s2"
    /\ last_loaded # None /\ ev.cwd = last_loaded
    /\ ~last_scan.ran
    /\ Types(returned) = <<"agent_spawn">>
    /\ "s1" \in DOMAIN agents

\* C3: when the scan of a SessionStart fails, the call does not raise and
\* returns exactly [terrain_loading, agent_spawn]; the stored layout and
\* current_cwd are as before, and the session has an AgentState.
C3_ScanFailureStillSpawns ==
    [][ (ScanReturns /\ ~last_scan'.exists)
        => /\ raised' = "none"
           /\ Types(returned') = <<"terrain_loading", "agent_spawn">>
           /\ terrain_layout' = terrain_layout
           /\ current_cwd' = current_cwd
           /\ ev'.session_id \in DOMAIN agents' ]_vars

\* C3 witness: a scan has failed while a layout loaded earlier is stored.
C3_Witness ==
    /\ Handled({"SessionStart"})
    /\ last_scan.ran /\ ~last_scan.exists
    /\ terrain_layout # None
    /\ current_cwd # None /\ current_cwd # ev.cwd
    /\ Len(returned) = 2

\* The number of agent_spawn notifications in a list.
SpawnCount(msgs) == Cardinality({i \in 1..Len(msgs) : msgs[i].type = "agent_spawn"})

\* C4: every SessionStart returns a list whose last and only agent_spawn
\* carries agent_id = session id and position (0,0,0), and leaves the session's
\* AgentState present at position (0,0,0).
C4_SessionStartSpawnsAtOrigin ==
    Handled({"SessionStart"})
    => /\ raised = "none"
       /\ Len(returned) >= 1
       /\ SpawnCount(returned) = 1
       /\ returned[Len(returned)] =
              Notification("agent_spawn",
                  [agent_id |-> ev.session_id, position |-> Origin])
       /\ ev.session_id \in DOMAIN agents
       /\ agents[ev.session_id].agent_id = ev.session_id
       /\ agents[ev.session_id].position = Origin

\* C4 witness: the session had moved to a file (its last action is still
\* "move") and its SessionStart has put it back at the origin.
C4_Witness ==
    /\ Handled({"SessionStart"})
    /\ ev.session_id \in DOMAIN agents
    /\ agents[ev.session_id].current_action = Str(<<"move">>)
    /\ agents[ev.session_id].position = Origin

\* The layout holds a file whose path is exactly p, and that file's position.
HasFile(layout, p) ==
    layout # None /\ \E i \in 1..Len(layout.files) : Str(layout.files[i].path) = p
FilePosition(layout, p) ==
    layout.files[CHOOSE i \in 1..Len(layout.files) : Str(layout.files[i].path) = p].position

\* The position a session's agent has, the origin if it has none yet.
PositionOf(store, sid) == IF sid \in DOMAIN store THEN store[sid].position ELSE Origin

\* C5: every PreToolUse emits exactly one agent_event, whose event_type is
\* "move" if and only if the extracted path is the path of a file of the stored
\* layout; on "move" target_position and the agent's position are that file's
\* position, otherwise the type is "think", target_position is null and the
\* agent's position is as before.
C5_PreToolUseMovesIffFileKnown ==
    [][ (NewCall /\ ev'.hook_event_name = "PreToolUse")
        => LET sid == ev'.session_id
               p == ExtractedPath(ev')
               known == HasFile(terrain_layout, p)
           IN  /\ raised' = "none"
               /\ Types(returned') = <<"agent_event">>
               /\ returned'[1].data.agent_id = sid
               /\ (returned'[1].data.event_type = "move") <=> known
               /\ known =>
                    /\ returned'[1].data.target_position = FilePosition(terrain_layout, p)
                    /\ agents'[sid].position = FilePosition(terrain_layout, p)
               /\ ~known =>
                    /\ returned'[1].data.event_type = "think"
                    /\ returned'[1].data.target_position = None
                    /\ agents'[sid].position = PositionOf(agents, sid) ]_vars

\* C6: a PostToolUse for a session that has an AgentState emits exactly one
\* agent_event: type "idle", target_path the path extracted by the session's
\* most recent PreToolUse (null if none since the state was created),
\* target_position and thought null, tool_name that of the PostToolUse event.
C6_PostToolUseReportsLastTarget ==
    (Handled({"PostToolUse"}) /\ ev.session_id \in DOMAIN agents)
    => /\ raised = "none"
       /\ returned = << Notification("agent_event",
              [agent_id |-> ev.session_id, event_type |-> "idle",
               target_path |-> last_extracted[ev.session_id],
               target_position |-> None, thought |-> None,
               tool_name |-> ev.tool_name]) >>

\* C7: a PostToolUse for a session without an AgentState emits nothing, does
\* not raise and creates no AgentState.
C7_OrphanPostToolUseIgnored ==
    [][ (NewCall /\ ev'.hook_event_name = "PostToolUse"
            /\ ev'.session_id \notin DOMAIN agents)
        => /\ pc' = "idle"
           /\ raised' = "none"
           /\ returned' = <<>>
           /\ agents' = agents ]_vars

\* C7 witness: a PostToolUse for s1 was dropped while only s2 has a state.
C7_Witness ==
    /\ Handled({"PostToolUse"})
    /\ ev.session_id = "s1"
    /\ DOMAIN agents = {"s2"}
    /\ returned = <<>>
    /\ raised = "none"

\* C8: every SessionEnd or Stop emits exactly one agent_despawn for its session
\* id and leaves the store without that session, whether or not it was there;
\* the entries of the other sessions are kept as they were.
C8_SessionEndDespawns ==
    [][ (NewCall /\ ev'.hook_event_name \in {"SessionEnd", "Stop"})
        => /\ pc' = "idle"
           /\ raised' = "none"
           /\ returned' = << Notification("agent_despawn",
                                [agent_id |-> ev'.session_id]) >>
           /\ DOMAIN agents' = (DOMAIN agents) \ {ev'.session_id}
           /\ \A s \in DOMAIN agents' : agents'[s] = agents[s] ]_vars

\* C8 witness: the second request is a Stop for s1, which never had a state
\* (the first request created s2's), and s2's state is still stored.
C8_Witness ==
    /\ Handled({"Stop"})
    /\ ev.session_id = "s1"
    /\ steps = 2
    /\ DOMAIN agents = {"s2"}
    /\ Types(returned) = <<"agent_despawn">>

\* C9: an event with any other name returns the empty list and changes
\* nothing: store, stored layout and current_cwd are as before.
C9_UnknownEventIgnored ==
    [][ (NewCall /\ ev'.hook_event_name \notin
            {"SessionStart", "PreToolUse", "PostToolUse", "SessionEnd", "Stop"})
        => /\ pc' = "idle"
           /\ raised' = "none"
           /\ returned' = <<>>
           /\ agents' = agents
           /\ terrain_layout' = terrain_layout
           /\ current_cwd' = current_cwd ]_vars

\* C9 witness: an unknown event was ignored by a service that holds a layout
\* and an agent of another session.
C9_Witness ==
    /\ Handled({"Notification"})
    /\ ev.session_id = "s1"
    /\ DOMAIN agents = {"s2"}
    /\ terrain_layout # None
    /\ returned = <<>>

\* C10: in a SessionStart that loads terrain, terrain_loading has been handed
\* to the broadcast channel (returned to the caller) once the scan has begun;
\* filesystem and terrain_complete are handed over only after a successful
\* scan, in that order, followed by agent_spawn.
C10_LoadingAnnouncedBeforeScan ==
    /\ pc = "scan"
       => /\ returned # None
          /\ \E i \in 1..Len(returned) : returned[i].type = "terrain_loading"
    /\ (Handled({"SessionStart"}) /\ last_scan.ran)
       => IF last_scan.exists
          THEN Types(returned) = <<"terrain_loading", "filesystem",
                                   "terrain_complete", "agent_spawn">>
          ELSE Types(returned) = <<"terrain_loading", "agent_spawn">>

\* C11: on a SessionStart with a cwd, the terrain is reloaded (the scan is
\* entered) if and only if no layout is stored or the cwd differs from the root
\* of the stored layout, whichever operation stored it; when the stored
\* layout's root is the cwd the call returns exactly [agent_spawn].
C11_ReloadIffRootDiffers ==
    [][ (NewCall /\ ev'.hook_event_name = "SessionStart" /\ Truthy(ev'.cwd))
        => LET stale == terrain_layout = None \/ Str(terrain_layout.root) # ev'.cwd
           IN  /\ (pc' = "scan") <=> stale
               /\ ~stale => /\ pc' = "idle"
                            /\ raised' = "none"
                            /\ Types(returned') = <<"agent_spawn">> ]_vars

\* C12: no PreToolUse raises, whatever its tool name and tool input; each
\* returns exactly one agent_event.
C12_PreToolUseNeverRaises ==
    Handled({"PreToolUse"})
    => /\ raised = "none"
       /\ Len(returned) = 1
       /\ returned[1].type = "agent_event"

\* C13: after a PreToolUse that carries a tool name, the thought of the emitted
\* agent_event and the thought stored in the AgentState are the narration of
\* (tool name, tool input), "Using <tool>" included when the input is absent or
\* an empty map.
C13_ThoughtIsNarration ==
    (Handled({"PreToolUse"}) /\ ev.tool_name # None)
    => /\ raised = "none"
       /\ Len(returned) = 1
       /\ returned[1].data.thought = generate_thought(ev.tool_name, ev.tool_input)
       /\ agents[ev.session_id].thought = generate_thought(ev.tool_name, ev.tool_input)

-----------------------------------------------------------------------------
(* The extraction and narration functions on their own: extract_file_path and *)
(* generate_thought applied to one (tool name, tool input) pair.              *)

FnTools == {Str(<<t>>) : t \in {"Read", "Write", "Edit", "Bash", "Grep", "Glob", "Task"}}
FnKeys == {"file_path", "path", "command", "pattern"}
\* A path, a plain word, the empty string, null and two numbers (one falsy).
FnValues == {Str(<<"", "a", "f1">>), Str(<<"ls">>), Str(<<"">>), None, Num(5), Num(0)}
\* Absent, empty, every one-key map, and the maps that carry both path keys.
FnInputs ==
    {None, Map(<<>>)}
    \cup {Map(k :> v) : k \in FnKeys, v \in FnValues}
    \cup {Map(("file_path" :> v) @@ ("path" :> w)) :
             v \in {Str(<<"", "a", "f1">>), None}, w \in {Str(<<"", "b">>), Num(5)}}

FnInit ==
    /\ ev \in {HookEvent("", "call", t, i, None) : t \in FnTools, i \in FnInputs}
    /\ pc = "call"
    /\ returned = None
    /\ raised = "none"
    /\ agents = <<>>
    /\ terrain_layout = None
    /\ current_cwd = None
    /\ messages = <<>>
    /\ last_loaded = None
    /\ last_extracted = [s \in SessionIds |-> None]
    /\ last_scan = NoScan
    /\ steps = 0
    /\ history = NoHistory
    /\ WsInit
    /\ hash_salt \in Salts
    /\ random_state = FreshRandom
    /\ raw_layout = None

CallExtractFilePath ==
    /\ pc = "call"
    /\ pc' = "extract_file_path"
    /\ returned' = extract_file_path(ev.tool_name, ev.tool_input)
    /\ UNCHANGED <<agents, terrain_layout, current_cwd, ev, messages, raised,
                   last_loaded, last_extracted, last_scan, steps, history>>
    /\ UNCHANGED <<wsvars, procvars>>

CallGenerateThought ==
    /\ pc = "call"
    /\ pc' = "generate_thought"
    /\ LET r == generate_thought(ev.tool_name, ev.tool_input)
       IN  IF IsRaise(r)
           THEN raised' = r.exc /\ returned' = None
           ELSE raised' = "none" /\ returned' = r
    /\ UNCHANGED <<agents, terrain_layout, current_cwd, ev, messages,
                   last_loaded, last_extracted, last_scan, steps, history>>
    /\ UNCHANGED <<wsvars, procvars>>

FnNext == CallExtractFilePath \/ CallGenerateThought

FnSpec == FnInit /\ [][FnNext]_vars

\* The tool input has a non-empty value under this key.
HasParam(input, key) ==
    input.kind = "map" /\ key \in DOMAIN input.m /\ Truthy(input.m[key])

\* The final path segment of a parameter value.
BaseName(v) == IF v.kind = "str" THEN PathName(v.segs) ELSE Format(v)

\* C14: generate_thought returns "Reading "/"Writing "/"Editing " + the base
\* name of file_path for Read/Write/Edit, "Running: " + command for Bash,
\* "Searching for: "/"Finding: " + pattern for Grep/Glob, when that parameter
\* is non-empty; in every other case it returns "Using " + the tool name.
C14_ThoughtTable ==
    pc = "generate_thought"
    => LET tool == ev.tool_name
           input == ev.tool_input
           name == ToStr(tool.segs)
       IN  /\ raised = "none"
           /\ returned =
                CASE name = "Read" /\ HasParam(input, "file_path") ->
                         Text("Reading " \o BaseName(input.m["file_path"]))
                  [] name = "Write" /\ HasParam(input, "file_path") ->
                         Text("Writing " \o BaseName(input.m["file_path"]))
                  [] name = "Edit" /\ HasParam(input, "file_path") ->
                         Text("Editing " \o BaseName(input.m["file_path"]))
                  [] name = "Bash" /\ HasParam(input, "command") ->
                         Text("Running: " \o Format(input.m["command"]))
                  [] name = "Grep" /\ HasParam(input, "pattern") ->
                         Text("Searching for: " \o Format(input.m["pattern"]))
                  [] name = "Glob" /\ HasParam(input, "pattern") ->
                         Text("Finding: " \o Format(input.m["pattern"]))
                  [] OTHER -> Text("Using " \o name)

\* The tool input is a map that has this key.
HasKey(input, key) == input.kind = "map" /\ key \in DOMAIN input.m

\* C15: extract_file_path returns the value under file_path for Read, Write and
\* Edit, the value under path for Grep and Glob, and null otherwise: another
\* tool name, an absent or empty input, or a missing key.
C15_ExtractTable ==
    pc = "extract_file_path"
    => LET name == ToStr(ev.tool_name.segs)
           input == ev.tool_input
       IN  IF name \in {"Read", "Write", "Edit"} /\ HasKey(input, "file_path")
           THEN returned = input.m["file_path"]
           ELSE IF name \in {"Grep", "Glob"} /\ HasKey(input, "path")
           THEN returned = input.m["path"]
           ELSE returned = None

\* C15 witness: Bash with a file_path in its input has been answered null, and
\* so has Grep whose input has only a file_path.
C15_Witness ==
    /\ pc = "extract_file_path"
    /\ ev.tool_name \in {Str(<<"Bash">>), Str(<<"Grep">>)}
    /\ ev.tool_input = Map("file_path" :> Str(<<"", "a", "f1">>))
    /\ returned = None

-----------------------------------------------------------------------------
(* Broadcast channel: app/websocket.py, and the endpoint that feeds it,      *)
(* app/routers/events.py. Coroutines interleave at their await points: each  *)
(* send_text of a broadcast may be suspended while other calls run.          *)

\* The hook events POSTed to /api/events.
PostEvents ==
    {HookEvent("s1", n, None, None, None) :
         n \in {"SessionStart", "PostToolUse", "SessionEnd", "Stop", "Notification"}}
    \cup {HookEvent("s1", "PreToolUse", Str(<<"Read">>),
                    Map("file_path" :> Str(<<"", "a", "f1">>)), None)}

\* list.remove(w): the list without the first occurrence of w (w is in it).
ListRemove(conns, w) ==
    LET i == CHOOSE k \in 1..Len(conns) :
                 conns[k] = w /\ \A j \in 1..(k - 1) : conns[j] # w
    IN  SubSeq(conns, 1, i - 1) \o SubSeq(conns, i + 1, Len(conns))

InList(conns, w) == \E k \in 1..Len(conns) : conns[k] = w

\* Variant: the failed connections are left in the list.
RemoveDisconnected_none(conns, disconnected) == [conns |-> conns, raised |-> "none"]

\* The closing loop of broadcast: each connection marked as failed is removed;
\* list.remove raises ValueError for one that is no longer in the list, and
\* the removals made before it stand.
RECURSIVE RemoveDisconnected(_, _)
RemoveDisconnected(conns, disconnected) ==
    IF disconnected = <<>> THEN [conns |-> conns, raised |-> "none"]
    ELSE IF ~InList(conns, disconnected[1])
    THEN [conns |-> conns, raised |-> "ValueError"]
    ELSE RemoveDisconnected(ListRemove(conns, disconnected[1]), Tail(disconnected))

\* Another operation changes the list: the broadcasts in progress, other than
\* `t`, no longer run over a stable list (and their history is dropped).
Unsettle(b, t) ==
    [u \in Tasks |-> IF u # t /\ b[u].pc = "loop"
                     THEN [b[u] EXCEPT !.stable = FALSE, !.start = <<>>, !.log = <<>>]
                     ELSE b[u]]

\* The list has changed to `conns`: each broadcast in progress keeps, of the
\* listeners in the list since it began, those that are still in it (and what
\* it has sent to them).
StillListed(b, conns) ==
    [u \in Tasks |-> IF b[u].pc = "loop"
                     THEN [b[u] EXCEPT
                              !.throughout = {w \in @ : InList(conns, w)},
                              !.received = {w \in @ : InList(conns, w)},
                              !.repeated = {w \in @ : InList(conns, w)}]
                     ELSE b[u]]

\* The websockets connect in the order of their names (they are
\* interchangeable, so nothing is lost by fixing which one is first).
Earlier(w) ==
    CASE w = "w1" -> {} [] w = "w2" -> {"w1"} [] w = "w3" -> {"w1", "w2"}

\* ConnectionManager.connect: the websocket is accepted and appended.
Connect(w) ==
    /\ conn_state[w] = "new"
    /\ \A v \in Earlier(w) : conn_state[v] # "new"
    /\ active_connections' = Append(active_connections, w)
    /\ conn_state' = [conn_state EXCEPT ![w] = "open"]
    /\ bc' = Unsettle(bc, "")
    /\ UNCHANGED <<response, svcvars, procvars>>

\* ConnectionManager.disconnect, called once for a websocket that was
\* connected: list.remove raises ValueError when a broadcast has already
\* removed it.
Disconnect(w) ==
    /\ conn_state[w] = "open"
    /\ IF InList(active_connections, w)
       THEN /\ active_connections' = ListRemove(active_connections, w)
            /\ conn_state' = [conn_state EXCEPT ![w] = "closed"]
       ELSE /\ active_connections' = active_connections
            /\ conn_state' = [conn_state EXCEPT ![w] = "ValueError"]
    /\ bc' = StillListed(Unsettle(bc, ""), active_connections')
    /\ UNCHANGED <<response, svcvars, procvars>>

\* broadcast is called: the message is serialised and the loop over the live
\* list begins.
BroadcastStart(t) ==
    /\ bc[t].pc = "idle"
    /\ bc' = [bc EXCEPT ![t] = [pc |-> "loop", i |-> 0, disconnected |-> <<>>,
                                start |-> active_connections, log |-> <<>>,
                                stable |-> TRUE,
                                throughout |-> {w \in Listeners :
                                                   InList(active_connections, w)},
                                received |-> {}, repeated |-> {}]]
    /\ UNCHANGED <<active_connections, conn_state, response, svcvars, procvars>>

\* One pass of the loop: the iterator yields the next element of the list as
\* it is now, and send_text succeeds or raises (then the connection is marked).
BroadcastSend(t, ok) ==
    /\ bc[t].pc = "loop"
    /\ bc[t].i < Len(active_connections)
    /\ LET connection == active_connections[bc[t].i + 1]
       IN  bc' = [bc EXCEPT ![t] =
                     [@ EXCEPT !.i = @ + 1,
                               !.disconnected = IF ok THEN @ ELSE Append(@, connection),
                               !.received =
                                   IF ok /\ connection \in bc[t].throughout
                                   THEN @ \cup {connection} ELSE @,
                               !.repeated =
                                   IF ok /\ connection \in bc[t].received
                                   THEN @ \cup {connection} ELSE @,
                               !.log = IF bc[t].stable
                                       THEN Append(@, [connection |-> connection,
                                                        ok |-> ok])
                                       ELSE @]]
    /\ UNCHANGED <<active_connections, conn_state, response, svcvars, procvars>>

\* The iterator is exhausted: the marked connections are removed and the call
\* returns, or the removal raises out of broadcast.
BroadcastFinish(t) ==
    /\ bc[t].pc = "loop"
    /\ bc[t].i >= Len(active_connections)
    /\ LET r == RemoveDisconnected(active_connections, bc[t].disconnected)
       IN  /\ active_connections' = r.conns
           /\ bc' = [StillListed(Unsettle(bc, t), r.conns) EXCEPT
                        ![t].pc = IF r.raised = "none" THEN "returned" ELSE "raised",
                        ![t].i = 0,
                        ![t].disconnected = <<>>,
                        ![t].throughout = {},
                        ![t].received = {},
                        ![t].repeated = {}]
    /\ UNCHANGED <<conn_state, response, svcvars, procvars>>

\* The keyword arguments receive_event passes to AgentEvent(...).
RouterFields(event) ==
    [session_id |-> event.session_id, event_type |-> event.hook_event_name,
     tool_name |-> event.tool_name, tool_input |-> event.tool_input,
     cwd |-> event.cwd]

\* AgentEvent(**fields): agent_id, event_type and timestamp are required and
\* event_type is one of five literals; fields the model does not declare are
\* ignored.
NewAgentEvent(fields) ==
    IF /\ {"agent_id", "event_type", "timestamp"} \subseteq DOMAIN fields
       /\ fields.event_type \in {"move", "read", "write", "think", "idle"}
    THEN [f \in (DOMAIN fields) \cap {"agent_id", "event_type", "target_path",
              "target_position", "thought", "tool_name", "timestamp"} |-> fields[f]]
    ELSE Raise("ValidationError")

\* POST /api/events: receive_event builds an AgentEvent from the hook event,
\* broadcasts it as "agent_event" and answers "ok"; an exception in it is
\* answered with an error status and nothing is broadcast.
ReceiveEvent(event) ==
    /\ LET agent_event == NewAgentEvent(RouterFields(event))
       IN  response' =
             IF IsRaise(agent_event)
             THEN [event |-> event, status |-> "error", exc |-> agent_event.exc,
                   broadcast |-> <<>>]
             ELSE [event |-> event, status |-> "ok", exc |-> "none",
                   broadcast |-> <<Notification("agent_event", agent_event)>>]
    /\ UNCHANGED <<active_connections, conn_state, bc, svcvars, procvars>>

WsNext ==
    \/ \E w \in Listeners : Connect(w)
    \/ \E w \in Listeners : Disconnect(w)
    \/ \E t \in Tasks : BroadcastStart(t)
    \/ \E t \in Tasks, ok \in BOOLEAN : BroadcastSend(t, ok)
    \/ \E t \in Tasks : BroadcastFinish(t)
    \/ \E event \in PostEvents : ReceiveEvent(event)

WsSpec == Init /\ [][WsNext]_vars

\* The connections a broadcast tried, in order, and those whose send succeeded.
Tried(log) == [k \in 1..Len(log) |-> log[k].connection]
Succeeded(log) == {log[k].connection : k \in {j \in 1..Len(log) : log[j].ok}}

\* C16: a broadcast over a list of listeners that no other operation changes
\* while it runs returns without raising; it has sent to every listener of the
\* list exactly once, in list order, whichever of the sends failed, and the
\* active list it leaves holds exactly the listeners whose send succeeded (so
\* no later broadcast reaches a failed one).
C16_BroadcastIsolatesFailures ==
    [][ \A t \in Tasks :
          (bc[t].pc = "loop" /\ bc'[t].pc \in {"returned", "raised"} /\ bc[t].stable)
          => /\ bc'[t].pc = "returned"
             /\ Tried(bc[t].log) = bc[t].start
             /\ active_connections' =
                    SelectSeq(bc[t].start, LAMBDA w : w \in Succeeded(bc[t].log))
             /\ \A w \in Listeners :
                    w \notin Succeeded(bc[t].log) => ~InList(active_connections', w) ]_vars

\* C16 witness: the first broadcast went over three listeners, the middle send
\* failed and the other two succeeded; the later broadcast then reached the
\* two that remain and not the failed one.
C16_Witness ==
    /\ bc["b1"].pc = "returned" /\ bc["b1"].stable
    /\ bc["b1"].log = << [connection |-> "w1", ok |-> TRUE],
                         [connection |-> "w2", ok |-> FALSE],
                         [connection |-> "w3", ok |-> TRUE] >>
    /\ bc["b2"].pc = "returned" /\ bc["b2"].stable
    /\ bc["b2"].start = <<"w1", "w3">>
    /\ Tried(bc["b2"].log) = <<"w1", "w3">>
    /\ active_connections = <<"w1", "w3">>

\* C17: no call of broadcast raises to its caller, however its sends
\* interleave with other broadcasts and with connect and disconnect.
C17_BroadcastNeverRaises ==
    \A t \in Tasks : bc[t].pc # "raised"

\* What the event interpreter returns for an event, given the service's state
\* (for a SessionStart without a cwd, which loads no terrain).
Interpreted(event) ==
    CASE event.hook_event_name = "SessionStart" ->
             <<AgentSpawnMsg(SpawnStore(agents, event.session_id), event.session_id)>>
      [] event.hook_event_name \in {"SessionEnd", "Stop"} ->
             ResultList(handle_session_end(event))
      [] event.hook_event_name = "PreToolUse" ->
             ResultList(handle_pre_tool_use(agents, terrain_layout, event).result)
      [] event.hook_event_name = "PostToolUse" ->
             ResultList(handle_post_tool_use(agents, event))
      [] OTHER -> <<>>

\* C18: every POST to /api/events is answered with status "ok" and broadcasts
\* exactly the notifications the event interpreter produces for the event, in
\* order.
C18_EndpointBroadcastsInterpretation ==
    response # None
    => /\ response.status = "ok"
       /\ response.broadcast = Interpreted(response.event)

-----------------------------------------------------------------------------
(* The terrain layout engine on its own: scan_filesystem, and with it        *)
(* calculate_positions_for_layout, applied to one directory tree.            *)

\* The directories a scanned tree may hold, as paths relative to the root, in
\* the two orders os.walk may visit them (top-down; siblings in either order).
TreeAscending ==
    << <<"d1">>, <<"d1", ".git">>, <<"d1", "e1">>, <<"d1", "e1", "g1">>, <<"d1", "e2">>,
       <<"d2">>, <<"d2", "e1">>, <<"d2", "e1", "g1">>, <<"d2", "e1", "g1", "h1">>,
       <<"d2", "e1", "g1", "h1", "i1">>, <<"d2", "e1", "g1", "h1", "i1", "j1">>,
       <<"d2", "e1", "g1", "h1", "i1", "j1", "k1">>,
       <<"d3">>, <<"node_modules">>, <<"node_modules", "d1">> >>
TreeDescending ==
    << <<"node_modules">>, <<"node_modules", "d1">>, <<"d3">>,
       <<"d2">>, <<"d2", "e1">>, <<"d2", "e1", "g1">>, <<"d2", "e1", "g1", "h1">>,
       <<"d2", "e1", "g1", "h1", "i1">>, <<"d2", "e1", "g1", "h1", "i1", "j1">>,
       <<"d2", "e1", "g1", "h1", "i1", "j1", "k1">>,
       <<"d1">>, <<"d1", "e2">>, <<"d1", "e1">>, <<"d1", "e1", "g1">>, <<"d1", ".git">> >>
TreeDirs == {TreeAscending[k] : k \in 1..Len(TreeAscending)}

\* The directories of TreeDirs with an excluded name on their path, and the
\* chain of directories below d2/e1.
TreeExcluded == {d \in TreeDirs : \E k \in 1..Len(d) : d[k] \in EXCLUDED_DIRS}
TreeChain == {d \in TreeDirs : d[1] = "d2" /\ Len(d) > 2}

\* The trees: the sets of directories that hold the parent of each member,
\* with none or all of the excluded directories their members allow, and with
\* the chain absent, down to MAX_DEPTH, or whole.
Trees ==
    {T \in SUBSET TreeDirs :
        /\ \A d \in T : Len(d) > 1 => SubSeq(d, 1, Len(d) - 1) \in T
        /\ \/ T \cap TreeExcluded = {}
           \/ \A d \in TreeExcluded :
                  (Len(d) = 1 \/ SubSeq(d, 1, Len(d) - 1) \in T) => d \in T
        /\ T \cap TreeChain \in {{}, {d \in TreeChain : Len(d) <= MAX_DEPTH}, TreeChain}}

\* The file names in a directory of a tree.
TreeFiles(rel) ==
    IF rel = <<>> THEN <<"f1">>
    ELSE IF rel = <<"d1">> THEN <<"f1", "f2">>
    ELSE IF rel[Len(rel)] \in {"i1", "j1", ".git", "node_modules"} THEN <<"f1">>
    ELSE <<>>

\* The listing of a tree: the root, then its directories in the given order;
\* `unreadable` names the files of d1 whose stat() fails.
TreeWalk(T, order, unreadable) ==
    << [rel |-> <<>>, files |-> TreeFiles(<<>>), unreadable |-> {}] >>
    \o [k \in 1..Len(SelectSeq(order, LAMBDA d : d \in T)) |->
           LET rel == SelectSeq(order, LAMBDA d : d \in T)[k]
           IN  [rel |-> rel,
                files |-> TreeFiles(rel),
                unreadable |-> IF rel = <<"d1">> THEN unreadable ELSE {}]]
TreeWalks ==
    {TreeWalk(T, order, unreadable) :
        T \in Trees, order \in {TreeAscending, TreeDescending},
        unreadable \in {{}, {"f2"}}}

\* The roots scanned: a directory, the filesystem root and the current directory.
TreeRoots == {<<"", "a">>, <<"", "">>, <<".">>}

TerrainInit ==
    /\ ev \in {HookEvent("", "scan_filesystem", None, None, Str(root)) : root \in TreeRoots}
    /\ last_scan \in {Scanned([exists |-> TRUE, walk |-> w]) : w \in TreeWalks}
    /\ pc = "call"
    /\ terrain_layout = None
    /\ returned = None
    /\ raised = "none"
    /\ agents = <<>>
    /\ current_cwd = None
    /\ messages = <<>>
    /\ last_loaded = None
    /\ last_extracted = [s \in SessionIds |-> None]
    /\ steps = 0
    /\ history = NoHistory
    /\ WsInit
    /\ hash_salt \in Salts
    /\ random_state = FreshRandom
    /\ raw_layout = None

\* The raw layout object as calculate_positions_for_layout leaves it: the
\* function builds new Folder and File objects and a new FilesystemLayout.
InputAfter_inplace(layout) ==
    [layout EXCEPT !.folders = calculate_positions_for_layout(layout).folders]
InputAfter(layout) == layout

\* scan_filesystem(path): the directory is walked, the raw layout built and
\* positioned.
ScanFilesystem ==
    /\ pc = "call"
    /\ pc' = "positioned"
    /\ terrain_layout' = scan_filesystem(ev.cwd.segs, last_scan.walk)
    /\ raw_layout' = InputAfter(ScannedLayout(ev.cwd.segs, last_scan.walk))
    /\ random_state' = RandomAfterLayout(terrain_layout', random_state)
    /\ UNCHANGED <<agents, current_cwd, ev, messages, returned, raised,
                   last_loaded, last_extracted, last_scan, steps, history>>
    /\ UNCHANGED <<wsvars, hash_salt>>

\* The same process scans the same directory a second time; `returned` keeps
\* the first result.
ScanAgain ==
    /\ pc = "positioned"
    /\ returned = None
    /\ returned' = terrain_layout
    /\ terrain_layout' = scan_filesystem(ev.cwd.segs, last_scan.walk)
    /\ raw_layout' = InputAfter(ScannedLayout(ev.cwd.segs, last_scan.walk))
    /\ random_state' = RandomAfterLayout(terrain_layout', random_state)
    /\ UNCHANGED <<agents, current_cwd, ev, messages, raised, pc,
                   last_loaded, last_extracted, last_scan, steps, history>>
    /\ UNCHANGED <<wsvars, hash_salt>>

\* The process ends and a new one starts, with its own hash salt and a
\* freshly seeded generator; `returned` keeps what the first one produced.
RestartProcess ==
    /\ pc = "positioned"
    /\ returned = None
    /\ returned' = terrain_layout
    /\ terrain_layout' = None
    /\ raw_layout' = None
    /\ hash_salt' \in Salts
    /\ random_state' = FreshRandom
    /\ pc' = "call"
    /\ UNCHANGED <<agents, current_cwd, ev, messages, raised,
                   last_loaded, last_extracted, last_scan, steps, history>>
    /\ UNCHANGED wsvars

TerrainNext ==
    \/ ScanFilesystem
    \/ ScanAgain
    \/ RestartProcess

TerrainSpec == TerrainInit /\ [][TerrainNext]_vars

\* The folders handed to calculate_positions_for_layout, in input order.
InputFolders == ScannedLayout(ev.cwd.segs, last_scan.walk).folders

\* The index of the folder with this path in a list of folders (0 if none).
FolderIndex(folders, path) ==
    IF \E k \in 1..Len(folders) : folders[k].path = path
    THEN CHOOSE k \in 1..Len(folders) : folders[k].path = path
    ELSE 0

\* The x/z distance between two positions is r, within 0.05 units.
AtDistance(p, q, r) ==
    LET d2 == (p.x - q.x) * (p.x - q.x) + (p.z - q.z) * (p.z - q.z)
    IN  (r - 50) * (r - 50) <= d2 /\ d2 <= (r + 50) * (r + 50)

\* C19: in the positioned layout every depth-1 folder is at x/z distance 20.0
\* from the origin; with N such folders the i-th of the input (counting from
\* 0) is at angle i*2*pi/N, and no two of them share a position.
C19_DepthOneRing ==
    pc = "positioned"
    => LET out == terrain_layout.folders
           top == SelectSeq(InputFolders, LAMBDA f : f.depth = 1)
           N == Len(top)
       IN  /\ \A k \in 1..Len(out) :
                  out[k].depth = 1 => AtDistance(out[k].position, Origin, 20000)
           /\ \A i \in 1..N :
                  LET k == FolderIndex(out, top[i].path)
                  IN  /\ k > 0
                      /\ out[k].position.x = (CosTurn(i - 1, N) * 20000) \div 1000
                      /\ out[k].position.z = (SinTurn(i - 1, N) * 20000) \div 1000
           /\ \A k, l \in 1..Len(out) :
                  (out[k].depth = 1 /\ out[l].depth = 1 /\ k # l)
                  => out[k].position # out[l].position

\* C19 witness: a positioned tree with three top-level folders, one of them
\* with a subfolder.
C19_Witness ==
    /\ pc = "positioned"
    /\ Len(SelectSeq(terrain_layout.folders, LAMBDA f : f.depth = 1)) = 3
    /\ \E k \in 1..Len(terrain_layout.folders) : terrain_layout.folders[k].depth = 2

\* C20: in the positioned layout every folder of depth >= 2 has its parent
\* (the folder whose path is its own without the last segment) earlier in the
\* output, and is at x/z distance 5.0 from the parent's position.
C20_NestedClusterAtParent ==
    pc = "positioned"
    => LET out == terrain_layout.folders
       IN  \A k \in 1..Len(out) :
              out[k].depth >= 2
              => LET p == FolderIndex(out, SubSeq(out[k].path, 1, Len(out[k].path) - 1))
                 IN  /\ p > 0
                     /\ p < k
                     /\ AtDistance(out[k].position, out[p].position, 5000)

\* C20 witness: a positioned tree with a folder of depth 3 and a parent that
\* has two subfolders.
C20_Witness ==
    /\ pc = "positioned"
    /\ \E k \in 1..Len(terrain_layout.folders) : terrain_layout.folders[k].depth = 3
    /\ Len(SelectSeq(terrain_layout.folders, LAMBDA f : f.depth = 2)) >= 3
    /\ Len(terrain_layout.folders) = Len(InputFolders)

IsBelow(path, prefix) ==
    Len(path) > Len(prefix) /\ SubSeq(path, 1, Len(prefix)) = prefix

\* The folders strictly below a folder plus the file records owned by it or by
\* a folder below it, counted directly from the raw layout.
ContentsBelow(layout, path) ==
    Cardinality({k \in 1..Len(layout.folders) : IsBelow(layout.folders[k].path, path)})
    + Cardinality({k \in 1..Len(layout.files) :
                      \/ layout.files[k].folder = path
                      \/ IsBelow(layout.files[k].folder, path)})

\* The largest ContentsBelow of a layout's folders (0 without folders).
LargestContents(layout) ==
    IF layout.folders = <<>> THEN 0
    ELSE CHOOSE n \in 0..(Len(layout.folders) + Len(layout.files)) :
            /\ \E k \in 1..Len(layout.folders) :
                   ContentsBelow(layout, layout.folders[k].path) = n
            /\ \A k \in 1..Len(layout.folders) :
                   ContentsBelow(layout, layout.folders[k].path) <= n

\* C22: every height of a positioned layout is in [2.0, 10.0] and does not
\* decrease as the total contents grow; a folder with no contents has 2.0;
\* when the largest total is at least 1 the folders that have it get 10.0,
\* and when it is 0 every folder gets 2.0.
C22_HeightRange ==
    pc = "positioned"
    => LET out == terrain_layout.folders
           total(k) == ContentsBelow(raw_layout, out[k].path)
           largest == LargestContents(raw_layout)
       IN  \A k \in 1..Len(out) :
              /\ 2000 <= out[k].height /\ out[k].height <= 10000
              /\ \A l \in 1..Len(out) :
                     total(k) <= total(l) => out[k].height <= out[l].height
              /\ total(k) = 0 => out[k].height = 2000
              /\ (largest >= 1 /\ total(k) = largest) => out[k].height = 10000
              /\ largest = 0 => out[k].height = 2000

\* C22 witness: a positioned layout whose folders have three different
\* heights, the lowest and the highest among them.
C22_Witness ==
    /\ pc = "positioned"
    /\ \E k, l, m \in 1..Len(terrain_layout.folders) :
           /\ terrain_layout.folders[k].height = 2000
           /\ terrain_layout.folders[l].height = 10000
           /\ terrain_layout.folders[m].height > 2000
           /\ terrain_layout.folders[m].height < 10000

\* C22 witness of the floor: a positioned layout with folders, none of which
\* has any contents.
C22_WitnessEmpty ==
    /\ pc = "positioned"
    /\ terrain_layout.folders # <<>>
    /\ LargestContents(raw_layout) = 0

\* C23: for every folder of a scanned layout the recursive total contents is
\* its direct file count (the file_count field of its record) plus the number
\* of its direct subfolders plus the totals of these subfolders; so a folder
\* without subfolders has its file_count as total.
C23_TotalFromFileCount ==
    pc = "positioned"
    => \A k \in 1..Len(raw_layout.folders) :
           LET folder == raw_layout.folders[k]
               children == FolderChildren(raw_layout, folder.path)
           IN  calculate_total_contents(raw_layout, folder.path)
               = folder.file_count + Len(children) + SumTotals(raw_layout, children, 1)

\* C24: a second run on the same input, in the same process or in another
\* one, yields the positions of the first run for every folder and file.
C24_SameInputSamePositions ==
    (pc = "positioned" /\ returned # None)
    => /\ terrain_layout.folders = returned.folders
       /\ terrain_layout.files = returned.files

\* C30: positioning a layout leaves the state of the process-global random
\* generator as it was before the call.
C30_GlobalRandomUntouched ==
    [][(ScanFilesystem \/ ScanAgain) => random_state' = random_state]_vars

\* The path of a listed directory, and whether an excluded name is on it.
DirPath(e) == PathJoinAll(PathStr(ev.cwd.segs), e.rel)
HasExcluded(rel) == \E k \in 1..Len(rel) : rel[k] \in EXCLUDED_DIRS

\* How many folder records of the snapshot have this path, and how many file
\* records have this name in this folder.
FolderRecords(path) ==
    Cardinality({k \in 1..Len(terrain_layout.folders) :
                    terrain_layout.folders[k].path = path})
FileRecords(folder, name) ==
    Cardinality({k \in 1..Len(terrain_layout.files) :
                    /\ terrain_layout.files[k].folder = folder
                    /\ terrain_layout.files[k].name = name
                    /\ terrain_layout.files[k].path = PathJoin(folder, name)})

\* The directory of the listing is in the snapshot with this depth, and so is
\* each of its files that can be read.
Included(e, depth) ==
    /\ \E k \in 1..Len(terrain_layout.folders) :
           /\ terrain_layout.folders[k].path = DirPath(e)
           /\ terrain_layout.folders[k].depth = depth
    /\ FolderRecords(DirPath(e)) = 1
    /\ \A i \in 1..Len(e.files) :
           e.files[i] \notin e.unreadable => FileRecords(DirPath(e), e.files[i]) = 1

\* Neither the directory of the listing nor a file in it is in the snapshot.
Omitted(e) ==
    /\ FolderRecords(DirPath(e)) = 0
    /\ \A k \in 1..Len(terrain_layout.files) :
           terrain_layout.files[k].folder # DirPath(e)

-----------------------------------------------------------------------------
(* The layout engine called directly on hand-built raw layouts:
   app/services/terrain.py, calculate_positions_for_layout *)

\* The root and the folder paths of the raw layouts, in the two list orders
\* used. /p/c is in no layout, so /p/c/y never has its parent in the folder
\* set, and /p/a/x and /p/c/y/z have theirs only in some.
LayoutRoot == <<"", "p">>
LayoutAscending ==
    << <<"", "p", "a">>, <<"", "p", "a", "x">>, <<"", "p", "b">>,
       <<"", "p", "c", "y">>, <<"", "p", "c", "y", "z">> >>
LayoutDescending ==
    << <<"", "p", "c", "y", "z">>, <<"", "p", "c", "y">>, <<"", "p", "b">>,
       <<"", "p", "a", "x">>, <<"", "p", "a">> >>
LayoutFolderPaths == {LayoutAscending[k] : k \in 1..Len(LayoutAscending)}

\* The files of the raw layouts, each with its owning folder: the root, two
\* folders of LayoutFolderPaths and a directory outside the root.
LayoutFileList ==
    << [path |-> <<"", "p", "f1">>, name |-> "f1", folder |-> <<"", "p">>],
       [path |-> <<"", "p", "a", "f1">>, name |-> "f1", folder |-> <<"", "p", "a">>],
       [path |-> <<"", "p", "c", "y", "f1">>, name |-> "f1", folder |-> <<"", "p", "c", "y">>],
       [path |-> <<"", "q", "f1">>, name |-> "f1", folder |-> <<"", "q">>] >>

\* A raw layout as a caller builds it: folders without position and height,
\* with the depth of their path below the root and the count of their files.
RawLayout(order, paths, fileset) ==
    LET files == SelectSeq(LayoutFileList, LAMBDA f : f \in fileset)
        chosen == SelectSeq(order, LAMBDA p : p \in paths)
    IN  [root |-> LayoutRoot,
         folders |-> [k \in 1..Len(chosen) |->
                         [path |-> chosen[k],
                          name |-> chosen[k][Len(chosen[k])],
                          depth |-> Len(chosen[k]) - Len(LayoutRoot),
                          file_count |-> Len(SelectSeq(files,
                                              LAMBDA f : f.folder = chosen[k]))]],
         files |-> files]
RawLayouts ==
    {RawLayout(order, paths, fileset) :
        order \in {LayoutAscending, LayoutDescending},
        paths \in SUBSET LayoutFolderPaths,
        fileset \in SUBSET {LayoutFileList[k] : k \in 1..Len(LayoutFileList)}}

LayoutInit ==
    /\ raw_layout \in RawLayouts
    /\ hash_salt \in Salts
    /\ random_state = FreshRandom
    /\ pc = "call"
    /\ terrain_layout = None
    /\ returned = None
    /\ ev = NoEvent
    /\ raised = "none"
    /\ agents = <<>>
    /\ current_cwd = None
    /\ messages = <<>>
    /\ last_loaded = None
    /\ last_extracted = [s \in SessionIds |-> None]
    /\ last_scan = NoScan
    /\ steps = 0
    /\ history = NoHistory
    /\ WsInit

\* calculate_positions_for_layout(raw_layout)
PositionLayout ==
    /\ pc = "call"
    /\ pc' = "positioned"
    /\ terrain_layout' = calculate_positions_for_layout(raw_layout)
    /\ raw_layout' = InputAfter(raw_layout)
    /\ random_state' = RandomAfterLayout(terrain_layout', random_state)
    /\ UNCHANGED <<agents, current_cwd, ev, messages, returned, raised,
                   last_loaded, last_extracted, last_scan, steps, history>>
    /\ UNCHANGED <<wsvars, hash_salt>>

\* The function is applied a second time to the same raw layout object;
\* `returned` keeps the first output.
PositionAgain ==
    /\ pc = "positioned"
    /\ pc' = "positioned again"
    /\ returned' = terrain_layout
    /\ terrain_layout' = calculate_positions_for_layout(raw_layout)
    /\ raw_layout' = InputAfter(raw_layout)
    /\ random_state' = RandomAfterLayout(terrain_layout', random_state)
    /\ UNCHANGED <<agents, current_cwd, ev, messages, raised,
                   last_loaded, last_extracted, last_scan, steps, history>>
    /\ UNCHANGED <<wsvars, hash_salt>>

LayoutNext ==
    \/ PositionLayout
    \/ PositionAgain

LayoutSpec == LayoutInit /\ [][LayoutNext]_vars

PathsOf(folders) == {folders[k].path : k \in 1..Len(folders)}

\* C26: the output has every folder of the raw layout exactly once, with a
\* position and a height, and no other folder; also when the derived parent
\* of a folder is not in the folder set.
C26_EveryFolderPositioned ==
    pc = "positioned"
    => /\ PathsOf(terrain_layout.folders) = PathsOf(raw_layout.folders)
       /\ Len(terrain_layout.folders) = Len(raw_layout.folders)
       /\ \A k \in 1..Len(terrain_layout.folders) :
              /\ terrain_layout.folders[k].position # None
              /\ terrain_layout.folders[k].height \in Nat

\* C27: a file of the raw layout is absent from the output exactly when its
\* owning folder path is neither the root nor the path of a folder of the raw
\* layout; every other file is in the output once, with a position.
C27_FilesDroppedIffUnknownOwner ==
    pc = "positioned"
    => \A i \in 1..Len(raw_layout.files) :
           LET file == raw_layout.files[i]
               hits == {k \in 1..Len(terrain_layout.files) :
                           terrain_layout.files[k].path = file.path}
               known == \/ file.folder = raw_layout.root
                        \/ file.folder \in PathsOf(raw_layout.folders)
           IN  /\ hits = {} <=> ~known
               /\ known => /\ Cardinality(hits) = 1
                           /\ \A k \in hits : terrain_layout.files[k].position # None

-----------------------------------------------------------------------------
(* The agent store over sequences of hook events (specification Spec) *)

\* A call of process_hook_event for an event with this name returns or raises
\* in this step.
Handles(names) ==
    /\ pc' = "idle"
    /\ steps' = steps + 1 \/ pc = "scan"
    /\ ev'.hook_event_name \in names

\* The store has an entry, keyed by its agent_id, for exactly the sessions
\* whose latest lifecycle event is a SessionStart or a PreToolUse.
StoreMatchesLifecycle ==
    \A s \in SessionIds :
        /\ s \in DOMAIN agents <=> history.life[s] \in {"SessionStart", "PreToolUse"}
        /\ s \in DOMAIN agents => agents[s].agent_id = s

\* C31: a session id has an AgentState exactly when its most recent event
\* among SessionStart, PreToolUse, SessionEnd and Stop exists and is a
\* SessionStart or a PreToolUse; the stored agent_id is the key; and a
\* PostToolUse or an unrecognised event leaves the set of entries as it was.
C31_StoreFollowsLifecycle ==
    [][/\ StoreMatchesLifecycle'
       /\ Handles({"PostToolUse", "Notification"}) => DOMAIN agents' = DOMAIN agents]_vars

\* C31 witness: one session created by a PreToolUse, the other one stopped
\* without ever starting, and then a PostToolUse for the stopped one.
C31_Witness ==
    /\ pc = "idle"
    /\ \E s, t \in SessionIds :
           /\ history.life[s] = "PreToolUse" /\ s \in DOMAIN agents
           /\ history.life[t] = "Stop" /\ t \notin DOMAIN agents
           /\ ev.hook_event_name = "PostToolUse" /\ ev.session_id = t

\* Each agent is where its latest "move" since its last SessionStart or its
\* creation sent it, at the origin if there was none.
PositionMatchesMoves ==
    \A s \in DOMAIN agents :
        agents[s].position = IF history.move[s] = None THEN Origin ELSE history.move[s]

\* The call that returns in this step emitted a "think" agent_event.
EmitsThink ==
    /\ Len(returned') = 1
    /\ returned'[1].type = "agent_event"
    /\ returned'[1].data.event_type = "think"

\* C32: every agent's stored position is the target_position of its latest
\* "move" agent_event since its last SessionStart or since its creation, and
\* the origin if there was none; a "think" event, a PostToolUse and an event
\* of another session leave it as it was.
C32_PositionIsLastMove ==
    [][/\ PositionMatchesMoves'
       /\ Handles({"SessionStart", "SessionEnd", "Stop", "PreToolUse", "PostToolUse",
                   "Notification"})
          => \A s \in (DOMAIN agents) \cap (DOMAIN agents') :
                 (\/ s # ev'.session_id
                  \/ ev'.hook_event_name = "PostToolUse"
                  \/ ev'.hook_event_name = "PreToolUse" /\ EmitsThink)
                 => agents'[s].position = agents[s].position]_vars

\* C32 witness: an agent away from the origin, at the target of its latest
\* move, right after a "think" event of its own.
C32_Witness ==
    /\ pc = "idle"
    /\ ev.hook_event_name = "PreToolUse"
    /\ Len(returned) = 1
    /\ returned[1].data.event_type = "think"
    /\ ev.session_id \in DOMAIN agents
    /\ agents[ev.session_id].position # Origin
    /\ agents[ev.session_id].position = history.move[ev.session_id]

\* C33: a step taken for an event of one session leaves every other
\* session's entry as it was: none is created, removed or modified, also when
\* the step replaces the shared terrain layout.
C33_OtherSessionsUntouched ==
    [][\A b \in SessionIds :
           b # ev'.session_id
           => /\ b \in DOMAIN agents' <=> b \in DOMAIN agents
              /\ b \in DOMAIN agents => agents'[b] = agents[b]]_vars

\* C33 witness: a SessionStart of one session has just replaced the layout
\* while another session's agent stands at a file of the previous layout
\* that the new layout does not have.
C33_Witness ==
    /\ pc = "idle"
    /\ ev.hook_event_name = "SessionStart"
    /\ \E i \in 1..Len(returned) : returned[i].type = "filesystem"
    /\ \E b \in DOMAIN agents :
           /\ b # ev.session_id
           /\ agents[b].position # Origin
           /\ agents[b].current_action = Str(<<"move">>)
           /\ get_file_position(terrain_layout, agents[b].target_path) = None

\* C34: a step of process_hook_event changes the stored layout and
\* current_cwd only when it is a SessionStart whose scan succeeds, and then
\* the layout becomes the scan result and current_cwd the event's cwd; every
\* other step of it leaves both as they were.
C34_LayoutAndCwdChangeTogether ==
    [][ev'.hook_event_name # "GET /api/filesystem"
       => IF pc = "scan" /\ last_scan'.exists
          THEN /\ terrain_layout' = scan_filesystem(ev.cwd.segs, last_scan'.walk)
               /\ current_cwd' = ev.cwd
          ELSE /\ terrain_layout' = terrain_layout
               /\ current_cwd' = current_cwd]_vars

\* C34 witness: a SessionStart has replaced the layout loaded by an earlier
\* one, and current_cwd is its cwd.
C34_Witness ==
    /\ pc = "idle"
    /\ ev.hook_event_name = "SessionStart"
    /\ last_scan.ran /\ last_scan.exists
    /\ steps >= 2
    /\ current_cwd = ev.cwd
    /\ terrain_layout = scan_filesystem(ev.cwd.segs, last_scan.walk)
    /\ \E s \in DOMAIN agents : s # ev.session_id /\ history.life[s] = "SessionStart"

\* C35: a PostToolUse leaves the whole store as it was, so no agent's
\* current_action is ever anything but null, "move" or "think".
C35_PostToolUseKeepsState ==
    [][/\ Handles({"PostToolUse"}) => agents' = agents
       /\ \A s \in DOMAIN agents' :
              agents'[s].current_action \in {None, Str(<<"move">>), Str(<<"think">>)}]_vars

\* C35 witness: an idle agent_event has just been emitted for an agent whose
\* current_action is still "move".
C35_Witness ==
    /\ pc = "idle"
    /\ ev.hook_event_name = "PostToolUse"
    /\ Len(returned) = 1
    /\ returned[1].data.event_type = "idle"
    /\ agents[ev.session_id].current_action = Str(<<"move">>)
    /\ agents[ev.session_id].position # Origin

\* C36: a SessionStart for a cwd whose previous scan failed takes the terrain
\* branch again: it appends terrain_loading and enters the scan, and returns
\* [terrain_loading, agent_spawn] if the scan fails again and the four
\* notifications of a load if it succeeds.
C36_FailedLoadRetried ==
    [][/\ (/\ pc = "idle"
           /\ steps' = steps + 1
           /\ ev'.hook_event_name = "SessionStart"
           /\ ev'.cwd \in history.failed)
          => (pc' = "scan" /\ Types(messages') = <<"terrain_loading">>)
       /\ (pc = "scan" /\ pc' = "idle" /\ ev.cwd \in history.failed)
          => Types(returned') =
                 IF last_scan'.exists
                 THEN <<"terrain_loading", "filesystem", "terrain_complete", "agent_spawn">>
                 ELSE <<"terrain_loading", "agent_spawn">>]_vars

\* C36 witness: a SessionStart for a cwd whose scan failed before has
\* appended terrain_loading and is scanning it again.
C36_Witness ==
    /\ pc = "scan"
    /\ ev.cwd \in history.failed
    /\ Types(messages) = <<"terrain_loading">>

\* C36 witness of the outcomes: the repeated scan has failed again, or has
\* succeeded after a failure two events earlier.
C36_WitnessFailedTwice ==
    /\ pc = "idle"
    /\ ev.hook_event_name = "SessionStart"
    /\ steps >= 2
    /\ last_scan.ran /\ ~last_scan.exists
    /\ current_cwd = None
    /\ terrain_layout = None
    /\ Cardinality(history.failed) = 1
    /\ Cardinality(DOMAIN agents) = 1
    /\ Types(returned) = <<"terrain_loading", "agent_spawn">>

\* C38: a SessionStart for a session that has an AgentState changes only its
\* position, to the origin, keeping current_action, target_path and thought;
\* and a PostToolUse right after it emits an idle agent_event with the target
\* path recorded before the SessionStart.
C38_SessionStartKeepsContext ==
    [][/\ (Handles({"SessionStart"}) /\ ev'.session_id \in DOMAIN agents)
          => agents'[ev'.session_id] =
                 [agents[ev'.session_id] EXCEPT !.position = Origin]
       /\ (/\ Handles({"PostToolUse"})
           /\ ev.hook_event_name = "SessionStart"
           /\ ev.session_id = ev'.session_id)
          => /\ Len(returned') = 1
             /\ returned'[1].data.event_type = "idle"
             /\ returned'[1].data.target_path = agents[ev'.session_id].target_path]_vars

-----------------------------------------------------------------------------
(* Broadcasts interleaved with changes of the active list (WsSpec)           *)

\* The listeners a broadcast marked because their send raised.
Marked(disconnected) == {disconnected[k] : k \in 1..Len(disconnected)}

\* C37: when a broadcast's loop ends, every listener that was in the active
\* list from the start of the broadcast to the end of its loop, and whose send
\* did not fail, has received the message exactly once, whatever other
\* broadcasts, connects and disconnects changed the list meanwhile.
C37_ListenersPresentThroughoutReceive ==
    [][ \A t \in Tasks :
          (bc[t].pc = "loop" /\ bc'[t].pc \in {"returned", "raised"})
          => \A w \in bc[t].throughout \ Marked(bc[t].disconnected) :
                 w \in bc[t].received /\ w \notin bc[t].repeated ]_vars

====
